---- MODULE Spec2Model ----
(***************************************************************************)
(* Model of pybennu/providers/power/solvers/rtds.py: the RTDS provider.    *)
(* PMU sessions feed the tag store current_values; write() coalesces       *)
(* partial writes into gtnet_skt_state and sends the whole vector as one   *)
(* GTNET-SKT packet; read()/query()/periodic_publish() serve the store.    *)
(***************************************************************************)
EXTENDS Integers, Sequences, FiniteSets, TLC

(***************************************************************************)
(* Python values.  Every value is a record with the same three fields:     *)
(*   k  the Python type name ("int", "float", "bool", "str"), or the name  *)
(*      of the exception an expression raised instead of giving a value;   *)
(*   n  the number: an int's value, a bool's 0/1, a float's value counted  *)
(*      in quarters (a float 2.75 is n = 11), so that the floats of the    *)
(*      model are exactly the IEEE-754 single precision values they pack   *)
(*      to;                                                                *)
(*   s  a str's characters.                                                *)
(* A Python int outside the signed 32-bit range is the value PyWideInt(sg) *)
(* (sg its sign): struct's "i" format is the only place its size matters.  *)
(***************************************************************************)
PyInt(n) == [k |-> "int", n |-> n, s |-> <<>>]
PyWideInt(sg) == [k |-> "int", n |-> sg, s |-> <<"wide">>]
PyFloat(q) == [k |-> "float", n |-> q, s |-> <<>>]
PyBool(b) == [k |-> "bool", n |-> IF b THEN 1 ELSE 0, s |-> <<>>]
PyStr(chars) == [k |-> "str", n |-> 0, s |-> chars]
PyRaise(exc) == [k |-> exc, n |-> 0, s |-> <<>>]

IsWide(v) == v.k = "int" /\ v.s = <<"wide">>
IsRaise(v) == v.k \in {"ValueError", "struct.error", "AttributeError", "OSError", "IndexError"}
TypeName(v) == v.k

Digits == <<"0", "1", "2", "3", "4", "5", "6", "7", "8", "9">>
IsDigit(c) == \E d \in 1..10 : Digits[d] = c
DigitVal(c) == (CHOOSE d \in 1..10 : Digits[d] = c) - 1

\* str.lower() on the letters the requests use
Lower(chars) ==
  [i \in 1..Len(chars) |->
     CASE chars[i] = "T" -> "t" [] chars[i] = "R" -> "r" [] chars[i] = "U" -> "u"
       [] chars[i] = "E" -> "e" [] chars[i] = "F" -> "f" [] chars[i] = "A" -> "a"
       [] chars[i] = "L" -> "l" [] chars[i] = "S" -> "s" [] OTHER -> chars[i]]

IntMinDiv10 == -(2147483647 \div 10)

\* The digits of chars from position i on, accumulated as a negative number so
\* that every int32 fits; "wide" once the magnitude leaves the int32 range.
RECURSIVE NegDigits(_, _, _)
NegDigits(chars, i, acc) ==
  IF i > Len(chars) THEN [wide |-> FALSE, n |-> acc]
  ELSE LET d == DigitVal(chars[i]) IN
       IF acc > IntMinDiv10 \/ (acc = IntMinDiv10 /\ d <= 8)
       THEN NegDigits(chars, i + 1, acc * 10 - d)
       ELSE [wide |-> TRUE, n |-> 0]

AllDigits(chars, from) ==
  from <= Len(chars) /\ \A i \in from..Len(chars) : IsDigit(chars[i])

\* int(<str>): an optional sign and decimal digits, ValueError otherwise
ParseInt(chars) ==
  LET neg == Len(chars) >= 1 /\ chars[1] = "-"
      from == IF Len(chars) >= 1 /\ chars[1] \in {"-", "+"} THEN 2 ELSE 1
  IN IF ~AllDigits(chars, from) THEN PyRaise("ValueError")
     ELSE LET r == NegDigits(chars, from, 0) IN
          IF r.wide THEN PyWideInt(IF neg THEN -1 ELSE 1)
          ELSE IF neg THEN PyInt(r.n)
          ELSE IF r.n = -2147483647 - 1 THEN PyWideInt(1)
          ELSE PyInt(-r.n)

\* The value of the fraction digits in quarters: "5" -> 2, "75" -> 3, "0" -> 0.
\* (The requests only carry fractions that are multiples of 0.25.)
RECURSIVE Pow10(_)
Pow10(e) == IF e = 0 THEN 1 ELSE 10 * Pow10(e - 1)
FracQuarters(chars, from) ==
  IF from > Len(chars) THEN 0
  ELSE (-NegDigits(chars, from, 0).n * 4) \div Pow10(Len(chars) - from + 1)

\* float(<str>): an optional sign, digits, an optional "." and digits
ParseFloat(chars) ==
  LET neg == Len(chars) >= 1 /\ chars[1] = "-"
      from == IF Len(chars) >= 1 /\ chars[1] \in {"-", "+"} THEN 2 ELSE 1
      dots == {i \in from..Len(chars) : chars[i] = "."}
      dot == IF dots = {} THEN Len(chars) + 1 ELSE CHOOSE i \in dots : TRUE
      ints == SubSeq(chars, from, dot - 1)
      wellformed ==
        /\ Cardinality(dots) <= 1
        /\ \A i \in from..Len(chars) : i = dot \/ IsDigit(chars[i])
        /\ \E i \in from..Len(chars) : IsDigit(chars[i])
  IN IF ~wellformed THEN PyRaise("ValueError")
     ELSE LET q == -NegDigits(ints, 1, 0).n * 4 + FracQuarters(chars, dot + 1) IN
          PyFloat(IF neg THEN -q ELSE q)

\* int(x)
int(v) ==
  CASE v.k = "str" -> ParseInt(v.s)
    [] v.k = "float" -> PyInt(IF v.n >= 0 THEN v.n \div 4 ELSE -((-v.n) \div 4))
    [] v.k = "bool" -> PyInt(v.n)
    [] OTHER -> v

\* float(x)
float(v) ==
  CASE v.k = "str" -> ParseFloat(v.s)
    [] v.k \in {"int", "bool"} -> PyFloat(v.n * 4)
    [] OTHER -> v

(***************************************************************************)
(* struct.pack: one 4-byte big-endian field per format character.          *)
(***************************************************************************)
RECURSIVE Pow2(_)
Pow2(e) == IF e = 0 THEN 1 ELSE 2 * Pow2(e - 1)

\* the three low bytes of a number below 2^31, most significant first
Low3(u) == <<(u \div 65536) % 256, (u \div 256) % 256, u % 256>>

\* "i": signed 32-bit two's complement
PackInt(n) ==
  IF n >= 0 THEN <<n \div 16777216>> \o Low3(n)
  ELSE LET low31 == (n + 2147483647) + 1 IN
       <<128 + low31 \div 16777216>> \o Low3(low31)

\* the exponent of the largest power of two not above m (m >= 1)
RECURSIVE Log2(_)
Log2(m) == IF m < 2 THEN 0 ELSE 1 + Log2(m \div 2)

\* "f": IEEE-754 single precision of the float q/4
PackFloat(q) ==
  IF q = 0 THEN <<0, 0, 0, 0>>
  ELSE LET sign == IF q < 0 THEN 1 ELSE 0
           m == IF q < 0 THEN -q ELSE q
           p == Log2(m)
           biased == p - 2 + 127
           mant == (m - Pow2(p)) * Pow2(23 - p)
       IN <<sign * 128 + biased \div 2, (biased % 2) * 128 + mant \div 65536,
            (mant \div 256) % 256, mant % 256>>

\* struct.pack of one value under one format character: "i" demands an int
\* within the signed 32-bit range, "f" a number
PackField(fmt, v) ==
  IF fmt = "i"
  THEN IF v.k \in {"int", "bool"} /\ ~IsWide(v) THEN PackInt(v.n) ELSE <<>>
  ELSE IF v.k = "float" THEN PackFloat(v.n)
  ELSE IF v.k \in {"int", "bool"} /\ ~IsWide(v) THEN PackFloat(v.n * 4)
  ELSE <<>>

RECURSIVE PackFields(_, _, _)
PackFields(fmt, values, i) ==
  IF i > Len(fmt) THEN <<>>
  ELSE PackField(fmt[i], values[i]) \o PackFields(fmt, values, i + 1)

\* struct.pack(format, *values): struct.error when the number of values is not
\* the number of format characters or a value does not fit its field
pack(fmt, values) ==
  IF Len(fmt) # Len(values) \/ \E i \in 1..Len(fmt) : PackField(fmt[i], values[i]) = <<>>
  THEN [ok |-> FALSE, bytes |-> <<>>]
  ELSE [ok |-> TRUE, bytes |-> PackFields(fmt, values, 1)]

\* What the receiver reads back from one field (struct.unpack)
UnpackInt(b) ==
  IF b[1] < 128 THEN PyInt(b[1] * 16777216 + b[2] * 65536 + b[3] * 256 + b[4])
  ELSE PyInt((((b[1] - 128) * 16777216 + b[2] * 65536 + b[3] * 256 + b[4])
              - 2147483647) - 1)
UnpackFloat(b) ==
  LET sign == b[1] \div 128
      biased == (b[1] % 128) * 2 + b[2] \div 128
      mant == (b[2] % 128) * 65536 + b[3] * 256 + b[4]
      p == biased - 125
      m == (8388608 + mant) \div Pow2(23 - p)
  IN IF biased = 0 /\ mant = 0 THEN PyFloat(0)
     ELSE PyFloat(IF sign = 1 THEN -m ELSE m)
UnpackField(fmt, b) == IF fmt = "i" THEN UnpackInt(b) ELSE UnpackFloat(b)

(***************************************************************************)
(* str(value)                                                              *)
(***************************************************************************)
RECURSIVE NatStr(_)
NatStr(n) == IF n < 10 THEN <<Digits[n + 1]>> ELSE NatStr(n \div 10) \o <<Digits[(n % 10) + 1]>>

str(v) ==
  CASE v.k = "str" -> v.s
    [] v.k = "bool" -> IF v.n = 1 THEN <<"T", "r", "u", "e">> ELSE <<"F", "a", "l", "s", "e">>
    [] v.k = "int" /\ ~IsWide(v) ->
         IF v.n >= 0 THEN NatStr(v.n) ELSE <<"-">> \o NatStr(-v.n)
    [] v.k = "float" ->
         LET m == IF v.n < 0 THEN -v.n ELSE v.n
             frac == CASE m % 4 = 0 -> <<"0">> [] m % 4 = 1 -> <<"2", "5">>
                       [] m % 4 = 2 -> <<"5">> [] OTHER -> <<"7", "5">>
         IN (IF v.n < 0 THEN <<"-">> ELSE <<>>) \o NatStr(m \div 4) \o <<".">> \o frac
    [] OTHER -> <<"?">>

(***************************************************************************)
(* dict: Python dicts keep insertion order; a dict is the sequence of its  *)
(* items.  Assigning to a key that is present keeps its position.          *)
(***************************************************************************)
DictKeys(d) == [i \in 1..Len(d) |-> d[i].key]
DictValues(d) == [i \in 1..Len(d) |-> d[i].value]
DictHas(d, key) == \E i \in 1..Len(d) : d[i].key = key
DictGet(d, key) == d[CHOOSE i \in 1..Len(d) : d[i].key = key].value
\* Mutant: an assignment moves the key to the end, as a delete and re-insert would
DictSetLast(d, key, value) ==
  SelectSeq(d, LAMBDA item : item.key # key) \o <<[key |-> key, value |-> value]>>

DictSet(d, key, value) ==
  IF DictHas(d, key)
  THEN [i \in 1..Len(d) |-> IF d[i].key = key THEN [key |-> key, value |-> value] ELSE d[i]]
  ELSE Append(d, [key |-> key, value |-> value])
RECURSIVE DictUpdate(_, _)
DictUpdate(d, other) ==
  IF other = <<>> THEN d
  ELSE DictUpdate(DictSet(d, Head(other).key, Head(other).value), Tail(other))

(***************************************************************************)
(* Bounds of the model                                                     *)
(***************************************************************************)
MaxWrites == 3      \* write() calls in one behaviour
MaxOutages == 1     \* times the GTNET card becomes unreachable
MaxFrames == 2      \* data frames the PMUs deliver in one behaviour
MaxStoreWrites == 1 \* write() calls in one behaviour of the tag store's specification
MaxSourceOutages == 1 \* times the PMUs become unreachable in one behaviour

Chars(t) == PyStr(t)

(***************************************************************************)
(* Configurations ([power-solver-service] in the provider's .ini file)     *)
(***************************************************************************)
Configs ==
  { [names |-> <<"A", "B">>, types |-> <<"int", "float">>,
     initial |-> <<<<"0">>, <<"1", ".", "5">>>>, protocol |-> "tcp"],
    [names |-> <<"A", "B">>, types |-> <<"int", "float">>,
     initial |-> <<<<"0">>, <<"1", ".", "5">>>>, protocol |-> "udp"],
    [names |-> <<>>, types |-> <<>>, initial |-> <<>>, protocol |-> "tcp"] }

\* The threads that call write(): the provider's request handlers
Writers == {"w1", "w2"}

\* The PMUs of the configuration: rtds-pmu-names, rtds-pmu-labels, rtds-pdc-ids
PMUs == {1, 2}
pmu_name(p) == IF p = 1 THEN "PMU1" ELSE "PMU2"
pmu_label(p) == IF p = 1 THEN "BUS1" ELSE "BUS2"
pdc_id(p) == 40 + p

\* Data frames a PMU may deliver (DataFrame.get_measurements()): the measurements
\* with their phasors, (real, angle) pairs, and their analog values
Measurement(phasors, analog) == [phasors |-> phasors, analog |-> analog]
DataFrames ==
  { <<Measurement(<<<<PyFloat(4), PyFloat(2)>>>>, <<>>)>>,
    <<Measurement(<<<<PyFloat(8), PyFloat(-2)>>>>, <<PyFloat(6)>>)>>,
    <<Measurement(<<<<PyFloat(4), PyFloat(2)>>>>, <<>>),
      Measurement(<<<<PyFloat(8), PyFloat(-2)>>>>, <<>>)>>,
    <<Measurement(<<<<PyFloat(4), PyFloat(2)>>, <<PyFloat(8), PyFloat(-2)>>>>, <<>>)>> }

\* Channel names as a configuration frame gives them: the text "PHASOR CH d:" in
\* some letter case or nothing, then the name, padded with blanks
RawName(prefix, name) == [prefix |-> prefix, name |-> name, pad |-> "  "]
\* The "_channel_names" of the configuration frames a PMU may answer with
ConfigFrames ==
  { <<RawName("PHASOR CH 1:", "VA")>>,
    <<RawName("phasor ch 1:", "VB")>> }

\* The data frames of a PMU that sends one measurement of one phasor per frame
StoreFrames == {f \in DataFrames : Len(f) = 1 /\ Len(f[1].phasors) = 1}

\* Tags a client may ask read() for
ReadTags == {"A", "B", "Z", "BUS1_VA.real", "BUS1_VA.angle", "PMU1_ANALOG_1.real"}

\* write() requests: the tags mapping, in the order of its keys
Item(tag, v) == [key |-> tag, value |-> v]
Requests ==
  { <<>>,
    <<Item("B", Chars(<<"2", ".", "7", "5">>))>>,
    <<Item("A", Chars(<<"7">>))>>,
    <<Item("B", PyFloat(2)), Item("A", PyBool(TRUE))>>,
    <<Item("A", Chars(<<"3">>)), Item("Z", Chars(<<"1">>))>>,
    <<Item("Z", Chars(<<"1">>))>>,
    <<Item("A", PyInt(9)), Item("B", Chars(<<"x">>))>>,
    <<Item("A", Chars(<<"2", ".", "7", "5">>))>>,
    <<Item("A", Chars(<<"-", "1">>)), Item("B", Chars(<<"T", "R", "U", "E">>))>>,
    <<Item("A", PyFloat(11)), Item("B", PyInt(3))>>,
    <<Item("A", Chars(<<"F", "a", "l", "s", "e">>)), Item("B", PyBool(FALSE))>>,
    <<Item("A", Chars(<<"2", "1", "4", "7", "4", "8", "3", "6", "4", "8">>))>> }

\* The requests of the write() calls that run beside other threads
OverlapRequests ==
  { <<>>,
    <<Item("A", Chars(<<"7">>))>>,
    <<Item("B", PyFloat(2)), Item("A", PyBool(TRUE))>>,
    <<Item("Z", Chars(<<"1">>))>>,
    <<Item("A", PyInt(9)), Item("B", Chars(<<"x">>))>> }

VARIABLES
  gtnet_skt_tag_names,       \* self.gtnet_skt_tag_names
  gtnet_skt_tag_types,       \* self.gtnet_skt_tag_types
  gtnet_skt_initial_values,  \* self.gtnet_skt_initial_values
  gtnet_skt_protocol,        \* self.gtnet_skt_protocol
  struct_format_string,      \* self.struct_format_string, without its "!"
  gtnet_skt_state,           \* self.gtnet_skt_state: the Control Point Vector
  current_values,            \* self.current_values: the Tag Store
  gtnet_socket,              \* self.__gtnet_socket: "None" or "socket"
  lock,                      \* self.__lock: "free" or the thread holding it
  wpc,                       \* where each write() call stands
  wtags,                     \* its argument tags
  wi,                        \* the item its merge loop is at
  wpayload,                  \* its local payload
  wret,                      \* what the latest write() call returned, once it has
  conn,                      \* the state of the socket object behind gtnet_socket
  reachable,                 \* whether the GTNET card accepts connections
  outages,                   \* times the card went down
  calls,                     \* write() calls made
  last_raw,                  \* per tag, the value the last merge stored it from
  acked,                     \* the tags named by the write() calls that have returned their ACK
  last_sent,                 \* the last payload the socket has taken, if there is one
  wire,                      \* per call, the last payload it handed to the socket
  channel_names,             \* pmu.channel_names
  sequence,                  \* pmu.sequence
  ppc,                       \* where each _poll_pmu thread stands
  pframe,                    \* the measurements of its data frame still to process
  ppending,                  \* the assignments of the current measurement still to make
  frames,                    \* data frames delivered
  measured,                  \* 0: no measurement reached the store, 1: part of one, 2: a whole one
  retry_count,               \* the retry_count of each _poll_pmu thread
  pmu_socket,                \* pmu.pmu.pmu_socket: "None", "open", or "broken" once the peer is gone
  source_up,                 \* whether each PMU accepts connections and answers
  source_outages,            \* times a PMU went down
  started,                   \* whether the start command was sent on the PMU's current connection
  pcaller,                   \* the branch of _poll_pmu that called _rebuild_pmu_connection
  soft_run,                  \* polls without data since the thread's last frame or reconnection
  frame_sequence,            \* pmu.sequence when the thread got its current data frame
  pmu_header,                \* pmu.pmu_header: the header of the "current" connection or of a "previous" one
  config_fresh,              \* whether pmu.pmu_config was obtained on the PMU's current connection
  spc,                       \* where the thread of _start_poll_pmus stands
  publish_rate,              \* self.publish_rate, in seconds
  pubpc,                     \* where the thread of periodic_publish stands
  ptags,                     \* its local list "tags"
  published,                 \* the last message it handed to publish()
  ipc,                       \* where __init__ stands in its loop over the configured PMUs
  pmu_info,                  \* the zip iterator of __init__: the position of the item it yields next
  pmus                       \* self.pmus

initvars == <<ipc, pmu_info, pmus>>
cfgvars == <<gtnet_skt_tag_names, gtnet_skt_tag_types, gtnet_skt_initial_values,
             gtnet_skt_protocol, struct_format_string, initvars>>
wvars == <<wpc, wtags, wi, wpayload, wret, calls>>
netvars == <<gtnet_socket, conn, reachable, outages>>
ghostvars == <<last_raw, wire, acked, last_sent>>
svars == <<retry_count, pmu_socket, source_up, source_outages, started, pcaller, soft_run,
           frame_sequence, pmu_header, config_fresh>>
pvars == <<channel_names, sequence, ppc, pframe, ppending, frames, measured, svars>>
pubvars == <<publish_rate, pubpc, ptags, published>>
bgvars == <<spc, pubvars>>
vars == <<cfgvars, bgvars, gtnet_skt_state, current_values, lock, wvars, netvars, ghostvars,
          pvars>>

\* self.gtnet_skt_tags: tag name -> declared type
TagDeclared(tag) == \E i \in 1..Len(gtnet_skt_tag_names) : gtnet_skt_tag_names[i] = tag
TagType(tag) ==
  gtnet_skt_tag_types[CHOOSE i \in 1..Len(gtnet_skt_tag_names) : gtnet_skt_tag_names[i] = tag]

\* __init__: the state tracker and the struct format, from the configuration
RECURSIVE InitialState(_, _, _)
InitialState(names, types, initial) ==
  IF names = <<>> THEN <<>>
  ELSE DictUpdate(
         <<Item(Head(names), IF Head(types) = "int" THEN int(Chars(Head(initial)))
                             ELSE float(Chars(Head(initial))))>>,
         InitialState(Tail(names), Tail(types), Tail(initial)))
FormatString(types) == [i \in 1..Len(types) |-> IF types[i] = "int" THEN "i" ELSE "f"]

NoReturn == [st |-> "none", text |-> <<>>]
NoWire == [handed |-> "nothing", bytes |-> <<>>]
NotWritten(names) == [i \in 1..Len(names) |-> [set |-> FALSE, v |-> PyInt(0)]]

\* zip(self.pmu_ips, self.pmu_names, self.pmu_ports, self.pmu_labels, self.pdc_ids):
\* the configured PMUs, in configured order
ConfiguredPMUs == [i \in 1..Cardinality(PMUs) |-> i]

\* __init__: what the provider holds from one of some configurations, its PMUs
\* left aside
Configured(configs) ==
  /\ \E c \in configs :
       /\ gtnet_skt_tag_names = c.names
       /\ gtnet_skt_tag_types = c.types
       /\ gtnet_skt_initial_values = c.initial
       /\ gtnet_skt_protocol = c.protocol
       /\ struct_format_string = FormatString(c.types)
       /\ gtnet_skt_state = InitialState(c.names, c.types, c.initial)
       /\ current_values = DictUpdate(<<>>, InitialState(c.names, c.types, c.initial))
       /\ last_raw = NotWritten(c.names)
       /\ acked = {}
       /\ last_sent = NoWire
  /\ gtnet_socket = "None"
  /\ lock = "free"
  /\ wpc = [w \in Writers |-> "idle"]
  /\ wtags = [w \in Writers |-> <<>>]
  /\ wi = [w \in Writers |-> 1]
  /\ wpayload = [w \in Writers |-> <<>>]
  /\ wret = NoReturn
  /\ conn = "closed"
  /\ reachable = TRUE
  /\ outages = 0
  /\ calls = 0
  /\ wire = [w \in Writers |-> NoWire]
  /\ sequence = [p \in PMUs |-> 0]
  /\ pframe = [p \in PMUs |-> <<>>]
  /\ ppending = [p \in PMUs |-> <<>>]
  /\ frames = 0
  /\ measured = 0
  /\ retry_count = [p \in PMUs |-> 0]
  /\ source_outages = 0
  /\ pcaller = [p \in PMUs |-> "none"]
  /\ soft_run = [p \in PMUs |-> 0]
  /\ frame_sequence = [p \in PMUs |-> 0]
  /\ pubpc = "snapshot"
  /\ ptags = <<>>
  /\ published = <<>>

\* __init__: the provider as constructed from one of some configurations, every
\* configured PMU connected at the first attempt and configured
Constructed(configs) ==
  /\ Configured(configs)
  /\ channel_names = [p \in PMUs |-> <<"VA">>]
  /\ pmu_socket = [p \in PMUs |-> "open"]
  /\ source_up = [p \in PMUs |-> TRUE]
  /\ pmu_header = [p \in PMUs |-> "current"]
  /\ config_fresh = [p \in PMUs |-> TRUE]
  /\ ipc = "done"
  /\ pmu_info = Len(ConfiguredPMUs) + 1
  /\ pmus = ConfiguredPMUs

\* The provider once _start_poll_pmus has started the PMUs and their threads
Init ==
  /\ Constructed(Configs)
  /\ spc = "done"
  /\ started = [p \in PMUs |-> TRUE]
  /\ ppc = [p \in PMUs |-> "poll"]
  /\ publish_rate = 1

(***************************************************************************)
(* RTDS.write(tags)                                                        *)
(***************************************************************************)
Ack(text) == [st |-> "ACK=", text |-> text]
Err(text) == [st |-> "ERR=", text |-> text]
Raised(exc) == [st |-> "raise", text |-> <<exc>>]

\* The locals of a call that has returned
Returned(w) ==
  /\ wpc' = [wpc EXCEPT ![w] = "idle"]
  /\ wtags' = [wtags EXCEPT ![w] = <<>>]
  /\ wi' = [wi EXCEPT ![w] = 1]
  /\ wpayload' = [wpayload EXCEPT ![w] = <<>>]
  /\ wire' = [wire EXCEPT ![w] = NoWire]

FirstInvalid(tags) ==
  CHOOSE i \in 1..Len(tags) :
    /\ ~TagDeclared(tags[i].key)
    /\ \A j \in 1..(i - 1) : TagDeclared(tags[j].key)

\* Mutant: "false" and "true" are recognised in lower case only
Coerce_lower_only(typ, val) ==
  LET v == IF val = PyBool(FALSE) \/ (val.k = "str" /\ val.s = <<"f", "a", "l", "s", "e">>)
           THEN Chars(<<"0">>)
           ELSE IF val = PyBool(TRUE) \/ (val.k = "str" /\ val.s = <<"t", "r", "u", "e">>)
           THEN Chars(<<"1">>)
           ELSE val
  IN IF typ = "int" THEN int(v) ELSE float(v)

\* lines 873-881: "false"/"true" become "0"/"1", then the cast to the declared type
Coerce(typ, val) ==
  LET v == IF val = PyBool(FALSE) \/ (val.k = "str" /\ Lower(val.s) = <<"f", "a", "l", "s", "e">>)
           THEN Chars(<<"0">>)
           ELSE IF val = PyBool(TRUE) \/ (val.k = "str" /\ Lower(val.s) = <<"t", "r", "u", "e">>)
           THEN Chars(<<"1">>)
           ELSE val
  IN IF typ = "int" THEN int(v) ELSE float(v)

TagIndex(tag) == CHOOSE i \in 1..Len(gtnet_skt_tag_names) : gtnet_skt_tag_names[i] = tag

\* A request handler calls write(tags)
write_call(w, tags) ==
  /\ wpc[w] = "idle"
  /\ calls < MaxWrites
  /\ calls' = calls + 1
  /\ wpc' = [wpc EXCEPT ![w] = "validate"]
  /\ wtags' = [wtags EXCEPT ![w] = tags]
  /\ wret' = NoReturn
  /\ UNCHANGED <<cfgvars, bgvars, pvars, gtnet_skt_state, current_values, lock, wi, wpayload,
                 netvars, ghostvars>>

\* Mutant: each tag is validated only when its turn to be stored comes
write_validate_lazy(w) ==
  /\ wpc[w] = "validate"
  /\ IF wtags[w] = <<>>
     THEN /\ wret' = Err(<<"No tags provided for write to RTDS">>)
          /\ Returned(w)
          /\ UNCHANGED gtnet_skt_state
     ELSE IF \E i \in 1..Len(wtags[w]) : ~TagDeclared(wtags[w][i].key)
     THEN /\ wret' = Err(<<"Invalid tag name '", wtags[w][FirstInvalid(wtags[w])].key,
                           "' for write to RTDS">>)
          /\ Returned(w)
          /\ gtnet_skt_state' =
               DictUpdate(gtnet_skt_state,
                          [i \in 1..(FirstInvalid(wtags[w]) - 1) |->
                             Item(wtags[w][i].key,
                                  Coerce(TagType(wtags[w][i].key), wtags[w][i].value))])
     ELSE /\ wpc' = [wpc EXCEPT ![w] = "merge"]
          /\ UNCHANGED <<wret, wtags, wi, wpayload, wire, gtnet_skt_state>>
  /\ UNCHANGED <<cfgvars, bgvars, pvars, current_values, lock, calls, netvars, last_raw, acked,
                 last_sent>>

\* The check for an empty request and the validation of all incoming tag names
write_validate(w) ==
  /\ wpc[w] = "validate"
  /\ IF wtags[w] = <<>>
     THEN /\ wret' = Err(<<"No tags provided for write to RTDS">>)
          /\ Returned(w)
     ELSE IF \E i \in 1..Len(wtags[w]) : ~TagDeclared(wtags[w][i].key)
     THEN /\ wret' = Err(<<"Invalid tag name '", wtags[w][FirstInvalid(wtags[w])].key,
                           "' for write to RTDS">>)
          /\ Returned(w)
     ELSE /\ wpc' = [wpc EXCEPT ![w] = "merge"]
          /\ UNCHANGED <<wret, wtags, wi, wpayload, wire>>
  /\ UNCHANGED <<cfgvars, bgvars, pvars, gtnet_skt_state, current_values, lock, calls, netvars, last_raw,
                 acked,
                 last_sent>>

\* Mutant: the state tracker is rebuilt from the initial values on every write
write_merge_reset(w) ==
  /\ wpc[w] = "merge"
  /\ LET tag == wtags[w][wi[w]].key
         val == wtags[w][wi[w]].value
         typecasted_value == Coerce(TagType(tag), val)
         fresh == IF wi[w] = 1
                  THEN InitialState(gtnet_skt_tag_names, gtnet_skt_tag_types,
                                    gtnet_skt_initial_values)
                  ELSE gtnet_skt_state
     IN IF IsRaise(typecasted_value)
        THEN /\ wret' = Raised(typecasted_value.k)
             /\ Returned(w)
             /\ UNCHANGED <<gtnet_skt_state, last_raw>>
        ELSE /\ gtnet_skt_state' = DictSet(fresh, tag, typecasted_value)
             /\ last_raw' = [last_raw EXCEPT ![TagIndex(tag)] = [set |-> TRUE, v |-> val]]
             /\ IF wi[w] < Len(wtags[w])
                THEN wi' = [wi EXCEPT ![w] = wi[w] + 1] /\ wpc' = wpc
                ELSE wi' = wi /\ wpc' = [wpc EXCEPT ![w] = "encode"]
             /\ UNCHANGED <<wret, wtags, wpayload, wire>>
  /\ UNCHANGED <<cfgvars, bgvars, pvars, current_values, lock, calls, netvars, acked,
                 last_sent>>

\* Mutant: the loop that updates the state tracker updates the tag store too
write_merge_through(w) ==
  /\ wpc[w] = "merge"
  /\ LET tag == wtags[w][wi[w]].key
         val == wtags[w][wi[w]].value
         typecasted_value == Coerce(TagType(tag), val)
     IN IF IsRaise(typecasted_value)
        THEN /\ wret' = Raised(typecasted_value.k)
             /\ Returned(w)
             /\ UNCHANGED <<gtnet_skt_state, last_raw, current_values>>
        ELSE /\ gtnet_skt_state' = DictSet(gtnet_skt_state, tag, typecasted_value)
             /\ current_values' = DictSet(current_values, tag, typecasted_value)
             /\ last_raw' = [last_raw EXCEPT ![TagIndex(tag)] = [set |-> TRUE, v |-> val]]
             /\ IF wi[w] < Len(wtags[w])
                THEN wi' = [wi EXCEPT ![w] = wi[w] + 1] /\ wpc' = wpc
                ELSE wi' = wi /\ wpc' = [wpc EXCEPT ![w] = "encode"]
             /\ UNCHANGED <<wret, wtags, wpayload, wire>>
  /\ UNCHANGED <<cfgvars, bgvars, pvars, lock, calls, netvars, acked,
                 last_sent>>

\* One iteration of the loop that updates the state tracker
write_merge(w) ==
  /\ wpc[w] = "merge"
  /\ LET tag == wtags[w][wi[w]].key
         val == wtags[w][wi[w]].value
         typecasted_value == Coerce(TagType(tag), val)
     IN IF IsRaise(typecasted_value)
        THEN /\ wret' = Raised(typecasted_value.k)
             /\ Returned(w)
             /\ UNCHANGED <<gtnet_skt_state, last_raw>>
        ELSE /\ gtnet_skt_state' = DictSet(gtnet_skt_state, tag, typecasted_value)
             /\ last_raw' = [last_raw EXCEPT ![TagIndex(tag)] = [set |-> TRUE, v |-> val]]
             /\ IF wi[w] < Len(wtags[w])
                THEN wi' = [wi EXCEPT ![w] = wi[w] + 1] /\ wpc' = wpc
                ELSE wi' = wi /\ wpc' = [wpc EXCEPT ![w] = "encode"]
             /\ UNCHANGED <<wret, wtags, wpayload, wire>>
  /\ UNCHANGED <<cfgvars, bgvars, pvars, current_values, lock, calls, netvars, acked,
                 last_sent>>

\* Mutant: the payload holds only the points the request names
write_encode_touched(w) ==
  /\ wpc[w] = "encode"
  /\ LET values == [i \in 1..Len(wtags[w]) |-> DictGet(gtnet_skt_state, wtags[w][i].key)]
         format == [i \in 1..Len(wtags[w]) |->
                      IF TagType(wtags[w][i].key) = "int" THEN "i" ELSE "f"]
         payload == pack(format, values)
     IN IF payload.ok
        THEN /\ wpayload' = [wpayload EXCEPT ![w] = payload.bytes]
             /\ wpc' = [wpc EXCEPT ![w] = IF gtnet_socket = "None" THEN "reset" ELSE "send"]
             /\ UNCHANGED <<wret, wtags, wi, wire>>
        ELSE /\ wret' = Raised("struct.error")
             /\ Returned(w)
  /\ UNCHANGED <<cfgvars, bgvars, pvars, gtnet_skt_state, current_values, lock, calls, netvars,
                 last_raw, acked,
                 last_sent>>

\* The payload of the whole state tracker, then the check for a socket
write_encode(w) ==
  /\ wpc[w] = "encode"
  /\ LET values == DictValues(gtnet_skt_state)
         payload == pack(struct_format_string, values)
     IN IF payload.ok
        THEN /\ wpayload' = [wpayload EXCEPT ![w] = payload.bytes]
             /\ wpc' = [wpc EXCEPT ![w] = IF gtnet_socket = "None" THEN "reset" ELSE "send"]
             /\ UNCHANGED <<wret, wtags, wi, wire>>
        ELSE /\ wret' = Raised("struct.error")
             /\ Returned(w)
  /\ UNCHANGED <<cfgvars, bgvars, pvars, gtnet_skt_state, current_values, lock, calls, netvars,
                 last_raw, acked,
                 last_sent>>

(***************************************************************************)
(* RTDS._init_gtnet_socket() and RTDS._reset_gtnet_socket().  One socket   *)
(* object is referenced at a time: rebinding self.__gtnet_socket drops the *)
(* last reference to the previous object, which closes it.                 *)
(***************************************************************************)
\* Mutant: resetting the socket also re-initialises the state tracker
reset_gtnet_socket_reinit(w) ==
  /\ wpc[w] = "reset"
  /\ gtnet_socket' = "None"
  /\ conn' = "closed"
  /\ wpc' = [wpc EXCEPT ![w] = "create"]
  /\ gtnet_skt_state' = InitialState(gtnet_skt_tag_names, gtnet_skt_tag_types,
                                     gtnet_skt_initial_values)
  /\ UNCHANGED <<cfgvars, bgvars, pvars, current_values, lock, wtags, wi, wpayload,
                 wret, calls, reachable, outages, ghostvars>>

reset_gtnet_socket(w) ==
  /\ wpc[w] = "reset"
  /\ gtnet_socket' = "None"
  /\ conn' = "closed"
  /\ wpc' = [wpc EXCEPT ![w] = "create"]
  /\ UNCHANGED <<cfgvars, bgvars, pvars, gtnet_skt_state, current_values, lock, wtags, wi, wpayload,
                 wret, calls, reachable, outages, ghostvars>>

init_gtnet_socket_create(w) ==
  /\ wpc[w] = "create"
  /\ gtnet_socket' = "socket"
  /\ conn' = "unconnected"
  /\ wpc' = [wpc EXCEPT ![w] = IF gtnet_skt_protocol = "tcp" THEN "connect" ELSE "send"]
  /\ UNCHANGED <<cfgvars, bgvars, pvars, gtnet_skt_state, current_values, lock, wtags, wi, wpayload,
                 wret, calls, reachable, outages, ghostvars>>

\* connect(target); on an exception the socket is reset before the retry sleep
init_gtnet_socket_connect(w) ==
  /\ wpc[w] = "connect"
  /\ IF gtnet_socket = "socket" /\ conn = "unconnected" /\ reachable
     THEN /\ conn' = "established"
          /\ gtnet_socket' = gtnet_socket
          /\ wpc' = [wpc EXCEPT ![w] = "send"]
     ELSE /\ conn' = "closed"
          /\ gtnet_socket' = "None"
          /\ wpc' = [wpc EXCEPT ![w] = "retry_sleep"]
  /\ UNCHANGED <<cfgvars, bgvars, pvars, gtnet_skt_state, current_values, lock, wtags, wi, wpayload,
                 wret, calls, reachable, outages, ghostvars>>

\* sleep(self.retry_delay)
init_gtnet_socket_sleep(w) ==
  /\ wpc[w] = "retry_sleep"
  /\ wpc' = [wpc EXCEPT ![w] = "create"]
  /\ UNCHANGED <<cfgvars, bgvars, pvars, gtnet_skt_state, current_values, lock, wtags, wi, wpayload,
                 wret, calls, netvars, ghostvars>>

\* Whether send()/sendto() of the socket raises
SendRaises ==
  \/ gtnet_socket = "None"
  \/ gtnet_skt_protocol = "tcp" /\ conn # "established"
  \/ gtnet_skt_protocol = "udp" /\ ~reachable

\* One iteration of "while not sent"
write_send(w) ==
  /\ wpc[w] = "send"
  /\ wire' = [wire EXCEPT ![w] = [handed |-> IF SendRaises THEN "failed" ELSE "sent",
                                  bytes |-> wpayload[w]]]
  /\ wpc' = [wpc EXCEPT ![w] = IF SendRaises THEN "reset" ELSE "update"]
  /\ last_sent' = IF SendRaises THEN last_sent ELSE [handed |-> "sent", bytes |-> wpayload[w]]
  /\ UNCHANGED <<cfgvars, bgvars, pvars, gtnet_skt_state, current_values, lock, wtags, wi, wpayload,
                 wret, calls, netvars, last_raw, acked>>

\* Mutant: the acknowledgement counts the declared points
write_update_declared(w) ==
  /\ wpc[w] = "update"
  /\ lock = "free"
  /\ current_values' = DictUpdate(current_values, gtnet_skt_state)
  /\ wret' = Ack(<<"Wrote ">> \o NatStr(Len(gtnet_skt_tag_names))
                 \o <<" tags to RTDS via GTNET-SKT">>)
  /\ acked' = acked \cup {wtags[w][i].key : i \in 1..Len(wtags[w])}
  /\ Returned(w)
  /\ UNCHANGED <<cfgvars, bgvars, pvars, gtnet_skt_state, lock, calls, netvars, last_raw,
                 last_sent>>

\* with self.__lock: self.current_values.update(self.gtnet_skt_state); return
write_update(w) ==
  /\ wpc[w] = "update"
  /\ lock = "free"
  /\ current_values' = DictUpdate(current_values, gtnet_skt_state)
  /\ wret' = Ack(<<"Wrote ">> \o NatStr(Len(wtags[w])) \o <<" tags to RTDS via GTNET-SKT">>)
  /\ acked' = acked \cup {wtags[w][i].key : i \in 1..Len(wtags[w])}
  /\ Returned(w)
  /\ UNCHANGED <<cfgvars, bgvars, pvars, gtnet_skt_state, lock, calls, netvars, last_raw,
                 last_sent>>

(***************************************************************************)
(* The GTNET card                                                          *)
(***************************************************************************)
CardDown ==
  /\ reachable
  /\ outages < MaxOutages
  /\ reachable' = FALSE
  /\ outages' = outages + 1
  /\ conn' = IF conn = "established" THEN "broken" ELSE conn
  /\ UNCHANGED <<cfgvars, bgvars, pvars, gtnet_skt_state, current_values, lock, wvars, gtnet_socket,
                 ghostvars>>

CardUp ==
  /\ ~reachable
  /\ reachable' = TRUE
  /\ UNCHANGED <<cfgvars, bgvars, pvars, gtnet_skt_state, current_values, lock, wvars, gtnet_socket,
                 conn, outages, ghostvars>>

(***************************************************************************)
(* RTDS._serialize_value, RTDS.read, RTDS.query                            *)
(***************************************************************************)
serialize_value(tag, value) ==
  IF value.k = "bool"
  THEN IF value.n = 1 THEN <<"t", "r", "u", "e">> ELSE <<"f", "a", "l", "s", "e">>
  ELSE IF TagDeclared(tag) /\ TagType(tag) = "int"
  THEN IF int(value).n >= 1 THEN <<"t", "r", "u", "e">> ELSE <<"f", "a", "l", "s", "e">>
  ELSE str(value)

\* Mutant: the lookup comes before the check for an empty store
read_lookup_first(tag) ==
  IF ~DictHas(current_values, tag)
  THEN Err(<<"Tag not found in current values from RTDS">>)
  ELSE IF current_values = <<>>
  THEN Err(<<"Data points have not been initialized yet from the RTDS">>)
  ELSE Ack(serialize_value(tag, DictGet(current_values, tag)))

\* Mutant: only the GTNET-SKT points can be read
read_points_only(tag) ==
  IF current_values = <<>>
  THEN Err(<<"Data points have not been initialized yet from the RTDS">>)
  ELSE IF ~DictHas(gtnet_skt_state, tag)
  THEN Err(<<"Tag not found in current values from RTDS">>)
  ELSE Ack(serialize_value(tag, DictGet(current_values, tag)))

read(tag) ==
  IF current_values = <<>>
  THEN Err(<<"Data points have not been initialized yet from the RTDS">>)
  ELSE IF ~DictHas(current_values, tag)
  THEN Err(<<"Tag not found in current values from RTDS">>)
  ELSE Ack(serialize_value(tag, DictGet(current_values, tag)))

RECURSIVE Join(_)
Join(keys) ==
  IF keys = <<>> THEN <<>>
  ELSE IF Len(keys) = 1 THEN keys
  ELSE <<Head(keys), ",">> \o Join(Tail(keys))

\* Mutant: the store counts as empty until it holds more than the GTNET-SKT points
query_measured_only ==
  IF current_values = <<>> \/ current_values = gtnet_skt_state
  THEN Err(<<"No data points have been read yet from the RTDS">>)
  ELSE Ack(Join(DictKeys(current_values)))

query ==
  IF current_values = <<>>
  THEN Err(<<"No data points have been read yet from the RTDS">>)
  ELSE Ack(Join(DictKeys(current_values)))

(***************************************************************************)
(* RTDS._poll_pmu(pmu): one thread per PMU                                 *)
(***************************************************************************)
\* lines 706-717: the assignments one measurement makes to current_values, in order
RECURSIVE PhasorItems(_, _, _)
PhasorItems(p, phasors, i) ==
  IF i > Len(phasors) THEN <<>>
  ELSE IF i > Len(channel_names[p]) THEN <<Item("", PyRaise("IndexError"))>>
  ELSE <<Item(pmu_label(p) \o "_" \o channel_names[p][i] \o ".real", phasors[i][1]),
         Item(pmu_label(p) \o "_" \o channel_names[p][i] \o ".angle", phasors[i][2])>>
       \o PhasorItems(p, phasors, i + 1)
RECURSIVE AnalogItems(_, _, _)
AnalogItems(p, analog, i) ==
  IF i > Len(analog) THEN <<>>
  ELSE <<Item(pmu_name(p) \o "_ANALOG_" \o Digits[i + 1] \o ".real", analog[i]),
         Item(pmu_name(p) \o "_ANALOG_" \o Digits[i + 1] \o ".angle", analog[i])>>
       \o AnalogItems(p, analog, i + 1)
\* The assignments end with the IndexError of pmu.channel_names[ph_id], if it is raised
Assignments(p, mm) ==
  LET ph == PhasorItems(p, mm.phasors, 1)
  IN IF ph # <<>> /\ IsRaise(ph[Len(ph)].value) THEN ph
     ELSE ph \o AnalogItems(p, mm.analog, 1)

\* pmu.get_data_frame() returns a data frame
poll_pmu_frame(p, data_frame) ==
  /\ ppc[p] = "poll"
  /\ pmu_socket[p] = "open"
  /\ frames < MaxFrames
  /\ frames' = frames + 1
  /\ pframe' = [pframe EXCEPT ![p] = data_frame]
  /\ ppc' = [ppc EXCEPT ![p] = "measurement"]
  /\ soft_run' = [soft_run EXCEPT ![p] = 0]
  /\ frame_sequence' = [frame_sequence EXCEPT ![p] = sequence[p]]
  /\ UNCHANGED <<cfgvars, bgvars, gtnet_skt_state, current_values, lock, wvars, netvars, ghostvars,
                 channel_names, sequence, ppending, measured,
                 retry_count, pmu_socket, source_up, source_outages, started, pcaller,
                 pmu_header, config_fresh>>

\* "for mm in data_frame["measurements"]" up to "with self.__lock"
poll_pmu_lock(p) ==
  /\ ppc[p] = "measurement"
  /\ IF pframe[p] = <<>>
     THEN /\ ppc' = [ppc EXCEPT ![p] = "poll"]
          /\ UNCHANGED <<lock, ppending>>
     ELSE /\ lock = "free"
          /\ lock' = pmu_name(p)
          /\ ppending' = [ppending EXCEPT ![p] = Assignments(p, Head(pframe[p]))]
          /\ ppc' = [ppc EXCEPT ![p] = "apply"]
  /\ UNCHANGED <<cfgvars, bgvars, gtnet_skt_state, current_values, wvars, netvars, ghostvars,
                 channel_names, sequence, pframe, frames, measured, svars>>

\* self.current_values[tag] = val
poll_pmu_assign(p) ==
  /\ ppc[p] = "apply"
  /\ ppending[p] # <<>>
  /\ ~IsRaise(Head(ppending[p]).value)
  /\ current_values' = DictSet(current_values, Head(ppending[p]).key, Head(ppending[p]).value)
  /\ ppending' = [ppending EXCEPT ![p] = Tail(ppending[p])]
  /\ measured' = IF measured = 0 THEN 1 ELSE measured
  /\ UNCHANGED <<cfgvars, bgvars, gtnet_skt_state, lock, wvars, netvars, ghostvars,
                 channel_names, sequence, ppc, pframe, frames, svars>>

\* pmu.channel_names[ph_id] raises IndexError: the "with" block releases the
\* lock and the exception ends the thread
poll_pmu_raise(p) ==
  /\ ppc[p] = "apply"
  /\ ppending[p] # <<>>
  /\ IsRaise(Head(ppending[p]).value)
  /\ lock' = "free"
  /\ ppending' = [ppending EXCEPT ![p] = <<>>]
  /\ ppc' = [ppc EXCEPT ![p] = "dead"]
  /\ UNCHANGED <<cfgvars, bgvars, gtnet_skt_state, current_values, wvars, netvars, ghostvars,
                 channel_names, sequence, pframe, frames, measured, svars>>

\* The end of the "with" block, then pmu.sequence += 1
poll_pmu_unlock(p) ==
  /\ ppc[p] = "apply"
  /\ ppending[p] = <<>>
  /\ lock' = "free"
  /\ sequence' = [sequence EXCEPT ![p] = sequence[p] + 1]
  /\ pframe' = [pframe EXCEPT ![p] = Tail(pframe[p])]
  /\ ppc' = [ppc EXCEPT ![p] = "measurement"]
  /\ measured' = 2
  /\ UNCHANGED <<cfgvars, bgvars, gtnet_skt_state, current_values, wvars, netvars, ghostvars,
                 channel_names, ppending, frames, svars>>

\* What every step of a PMU thread outside the tag store leaves alone
SessionFrame ==
  UNCHANGED <<cfgvars, bgvars, gtnet_skt_state, current_values, lock, wvars, netvars, ghostvars,
              pframe, ppending, frames, measured, source_up, source_outages, frame_sequence>>

\* pmu.get_data_frame() returns None: no data, or not a data frame
poll_pmu_none(p) ==
  /\ ppc[p] = "poll"
  /\ IF retry_count[p] >= 3
     THEN /\ ppc' = [ppc EXCEPT ![p] = "rebuild"]
          /\ pcaller' = [pcaller EXCEPT ![p] = "soft"]
          /\ UNCHANGED <<retry_count, soft_run>>
     ELSE /\ retry_count' = [retry_count EXCEPT ![p] = retry_count[p] + 1]
          /\ soft_run' = [soft_run EXCEPT ![p] = soft_run[p] + 1]
          /\ ppc' = [ppc EXCEPT ![p] = "retry_sleep"]
          /\ UNCHANGED pcaller
  /\ UNCHANGED <<channel_names, sequence, pmu_socket, started, pmu_header, config_fresh>>
  /\ SessionFrame

\* sleep(self.retry_delay), then "continue"
poll_pmu_sleep(p) ==
  /\ ppc[p] = "retry_sleep"
  /\ ppc' = [ppc EXCEPT ![p] = "poll"]
  /\ UNCHANGED <<channel_names, sequence, retry_count, pmu_socket, started, pcaller, soft_run, pmu_header, config_fresh>>
  /\ SessionFrame

\* Mutant: an exception of the poll is counted and slept over like a poll without data
poll_pmu_exception_retried(p) ==
  /\ ppc[p] = "poll"
  /\ pmu_socket[p] # "open"
  /\ retry_count' = [retry_count EXCEPT ![p] = retry_count[p] + 1]
  /\ ppc' = [ppc EXCEPT ![p] = "retry_sleep"]
  /\ pcaller' = [pcaller EXCEPT ![p] = "exception"]
  /\ UNCHANGED <<channel_names, sequence, pmu_socket, started, soft_run,
                 pmu_header, config_fresh>>
  /\ SessionFrame

\* pmu.get_data_frame() raises: the socket is gone or its peer is
poll_pmu_exception(p) ==
  /\ ppc[p] = "poll"
  /\ pmu_socket[p] # "open"
  /\ ppc' = [ppc EXCEPT ![p] = "rebuild"]
  /\ pcaller' = [pcaller EXCEPT ![p] = "exception"]
  /\ UNCHANGED <<channel_names, sequence, retry_count, pmu_socket, started, soft_run,
                 pmu_header, config_fresh>>
  /\ SessionFrame

(***************************************************************************)
(* RTDS._rebuild_pmu_connection(pmu) and PMU.run()                         *)
(***************************************************************************)
\* _process_name: strip, remove "PHASOR CH d:" as written in upper case (the
\* flags of re.sub are passed in the place of its count), strip
process_name(cn) == IF cn.prefix = "PHASOR CH 1:" THEN cn.name ELSE cn.prefix \o cn.name

\* Mutant: the names of the new configuration are appended to the old ones
run_channel_names_appended(old, frame) == old \o [i \in 1..Len(frame) |-> process_name(frame[i])]

\* PMU.run: self.channel_names = [], then one processed name per channel
run_channel_names(old, frame) == [i \in 1..Len(frame) |-> process_name(frame[i])]

\* if pmu.pmu.pmu_socket: pmu.pmu.quit()
rebuild_quit(p) ==
  /\ ppc[p] = "rebuild"
  /\ pmu_socket' = [pmu_socket EXCEPT ![p] = "None"]
  /\ started' = [started EXCEPT ![p] = FALSE]
  /\ ppc' = [ppc EXCEPT ![p] = "connect"]
  /\ UNCHANGED <<channel_names, sequence, retry_count, pcaller, soft_run, pmu_header, config_fresh>>
  /\ SessionFrame

\* Mutant: a failed attempt to connect ends the thread
rebuild_connect_gives_up(p) ==
  /\ ppc[p] = "connect"
  /\ IF source_up[p]
     THEN /\ pmu_socket' = [pmu_socket EXCEPT ![p] = "open"]
          /\ config_fresh' = [config_fresh EXCEPT ![p] = FALSE]
          /\ pmu_header' = [pmu_header EXCEPT ![p] = "previous"]
          /\ ppc' = [ppc EXCEPT ![p] = "header"]
     ELSE /\ pmu_socket' = [pmu_socket EXCEPT ![p] = "None"]
          /\ ppc' = [ppc EXCEPT ![p] = "stopped"]
          /\ UNCHANGED <<config_fresh, pmu_header>>
  /\ UNCHANGED <<channel_names, sequence, retry_count, started, pcaller, soft_run>>
  /\ SessionFrame

\* pmu.pmu.run(): the attempt to connect; on an exception quit() and sleep
rebuild_connect(p) ==
  /\ ppc[p] = "connect"
  /\ IF source_up[p]
     THEN /\ pmu_socket' = [pmu_socket EXCEPT ![p] = "open"]
          /\ config_fresh' = [config_fresh EXCEPT ![p] = FALSE]
          /\ pmu_header' = [pmu_header EXCEPT ![p] = "previous"]
          /\ ppc' = [ppc EXCEPT ![p] = "header"]
     ELSE /\ pmu_socket' = [pmu_socket EXCEPT ![p] = "None"]
          /\ ppc' = [ppc EXCEPT ![p] = "rebuild_sleep"]
          /\ UNCHANGED <<config_fresh, pmu_header>>
  /\ UNCHANGED <<channel_names, sequence, retry_count, started, pcaller, soft_run>>
  /\ SessionFrame

\* PMU.run: get_header() answers or raises; its failure is logged and passed
\* over.  Some devices do not answer header requests though they are connected.
run_header(p) ==
  /\ ppc[p] = "header"
  /\ \/ pmu_socket[p] = "open" /\ pmu_header' = [pmu_header EXCEPT ![p] = "current"]
     \/ UNCHANGED pmu_header
  /\ ppc' = [ppc EXCEPT ![p] = "config"]
  /\ UNCHANGED <<channel_names, sequence, retry_count, pmu_socket, started, pcaller, soft_run,
                 config_fresh>>
  /\ SessionFrame

\* Mutant: a failed configuration request is logged and passed over
run_config_passed_over(p, frame) ==
  /\ ppc[p] = "config"
  /\ IF pmu_socket[p] = "open"
     THEN /\ channel_names' = [channel_names EXCEPT ![p] = run_channel_names(channel_names[p], frame)]
          /\ sequence' = [sequence EXCEPT ![p] = 0]
          /\ retry_count' = [retry_count EXCEPT ![p] = IF pcaller[p] = "soft" THEN 0 ELSE retry_count[p]]
          /\ soft_run' = [soft_run EXCEPT ![p] = 0]
          /\ pcaller' = [pcaller EXCEPT ![p] = "none"]
          /\ ppc' = [ppc EXCEPT ![p] = "poll"]
          /\ config_fresh' = [config_fresh EXCEPT ![p] = TRUE]
          /\ UNCHANGED pmu_socket
     ELSE /\ ppc' = [ppc EXCEPT ![p] = "poll"]
          /\ UNCHANGED <<channel_names, sequence, retry_count, soft_run, pcaller, config_fresh,
                         pmu_socket>>
  /\ UNCHANGED <<started, pmu_header>>
  /\ SessionFrame

\* PMU.run: get_config() and the channel names; then pmu.sequence = 0 and the
\* return to _poll_pmu, or the exception handler of _rebuild_pmu_connection
run_config(p, frame) ==
  /\ ppc[p] = "config"
  /\ IF pmu_socket[p] = "open"
     THEN /\ channel_names' = [channel_names EXCEPT ![p] = run_channel_names(channel_names[p], frame)]
          /\ sequence' = [sequence EXCEPT ![p] = 0]
          /\ retry_count' = [retry_count EXCEPT ![p] = IF pcaller[p] = "soft" THEN 0 ELSE retry_count[p]]
          /\ soft_run' = [soft_run EXCEPT ![p] = 0]
          /\ pcaller' = [pcaller EXCEPT ![p] = "none"]
          /\ ppc' = [ppc EXCEPT ![p] = "poll"]
          /\ config_fresh' = [config_fresh EXCEPT ![p] = TRUE]
          /\ UNCHANGED pmu_socket
     ELSE /\ pmu_socket' = [pmu_socket EXCEPT ![p] = "None"]
          /\ ppc' = [ppc EXCEPT ![p] = "rebuild_sleep"]
          /\ UNCHANGED <<channel_names, sequence, retry_count, soft_run, pcaller, config_fresh>>
  /\ UNCHANGED <<started, pmu_header>>
  /\ SessionFrame

\* sleep(self.retry_delay), then the next attempt
rebuild_sleep(p) ==
  /\ ppc[p] = "rebuild_sleep"
  /\ ppc' = [ppc EXCEPT ![p] = "connect"]
  /\ UNCHANGED <<channel_names, sequence, retry_count, pmu_socket, started, pcaller, soft_run, pmu_header, config_fresh>>
  /\ SessionFrame

(***************************************************************************)
(* The PMUs                                                                *)
(***************************************************************************)
SourceDown(p) ==
  /\ source_up[p]
  /\ source_outages < MaxSourceOutages
  /\ source_outages' = source_outages + 1
  /\ source_up' = [source_up EXCEPT ![p] = FALSE]
  /\ pmu_socket' = [pmu_socket EXCEPT ![p] = IF pmu_socket[p] = "open" THEN "broken" ELSE pmu_socket[p]]
  /\ UNCHANGED <<cfgvars, bgvars, gtnet_skt_state, current_values, lock, wvars, netvars, ghostvars,
                 channel_names, sequence, ppc, pframe, ppending, frames, measured,
                 retry_count, started, pcaller, soft_run, frame_sequence, pmu_header,
                 config_fresh>>

SourceUp(p) ==
  /\ ~source_up[p]
  /\ source_up' = [source_up EXCEPT ![p] = TRUE]
  /\ UNCHANGED <<cfgvars, bgvars, gtnet_skt_state, current_values, lock, wvars, netvars, ghostvars,
                 channel_names, sequence, ppc, pframe, ppending, frames, measured,
                 retry_count, pmu_socket, source_outages, started, pcaller, soft_run,
                 frame_sequence, pmu_header, config_fresh>>

(***************************************************************************)
(* RTDS.__init__: the loop that creates and connects the PMUs              *)
(***************************************************************************)
\* The item the for loop holds: the one the iterator yielded last
InitItem == ConfiguredPMUs[pmu_info - 1]

\* "for ip, name, port, label, pdc_id in pmu_info": the iterator yields its next
\* item, or is exhausted; then the else branch sets polling_active, the rest of
\* __init__ runs and the thread of _start_poll_pmus is started, whose loops
\* have nothing to do when self.pmus is empty
init_pmu_next ==
  /\ ipc = "next"
  /\ IF pmu_info <= Len(ConfiguredPMUs)
     THEN /\ pmu_info' = pmu_info + 1
          /\ ipc' = "connect"
          /\ UNCHANGED spc
     ELSE /\ ipc' = "done"
          /\ spc' = IF pmus = <<>> THEN "done" ELSE "start"
          /\ UNCHANGED pmu_info
  /\ UNCHANGED <<gtnet_skt_tag_names, gtnet_skt_tag_types, gtnet_skt_initial_values,
                 gtnet_skt_protocol, struct_format_string, pmus, pubvars, gtnet_skt_state,
                 current_values, lock, wvars, netvars, ghostvars, pvars>>

\* PMU(...) and, in pmu.run(), self.pmu.run(): the connection to the PMU; an
\* exception leaves the for loop for the handler of __init__
init_pmu_connect ==
  /\ ipc = "connect"
  /\ IF source_up[InitItem]
     THEN /\ pmu_socket' = [pmu_socket EXCEPT ![InitItem] = "open"]
          /\ ipc' = "config"
     ELSE /\ pmu_socket' = [pmu_socket EXCEPT ![InitItem] = "None"]
          /\ ipc' = "sleep"
  /\ UNCHANGED <<gtnet_skt_tag_names, gtnet_skt_tag_types, gtnet_skt_initial_values,
                 gtnet_skt_protocol, struct_format_string, pmu_info, pmus, bgvars,
                 gtnet_skt_state, current_values, lock, wvars, netvars, ghostvars,
                 channel_names, sequence, ppc, pframe, ppending, frames, measured,
                 retry_count, source_up, source_outages, started, pcaller, soft_run,
                 frame_sequence, pmu_header, config_fresh>>

\* The rest of pmu.run(): get_header(), whose failure is passed over,
\* get_config() and the channel names; then self.pmus.append(pmu).  An
\* exception of get_config() leaves the for loop for the handler of __init__.
init_pmu_config(frame) ==
  /\ ipc = "config"
  /\ IF pmu_socket[InitItem] = "open"
     THEN /\ \E header \in {"current", "None"} :
               pmu_header' = [pmu_header EXCEPT ![InitItem] = header]
          /\ channel_names' = [channel_names EXCEPT ![InitItem] = run_channel_names(<<>>, frame)]
          /\ config_fresh' = [config_fresh EXCEPT ![InitItem] = TRUE]
          /\ pmus' = Append(pmus, InitItem)
          /\ ipc' = "next"
          /\ UNCHANGED pmu_socket
     ELSE /\ pmu_socket' = [pmu_socket EXCEPT ![InitItem] = "None"]
          /\ ipc' = "sleep"
          /\ UNCHANGED <<pmu_header, channel_names, config_fresh, pmus>>
  /\ UNCHANGED <<gtnet_skt_tag_names, gtnet_skt_tag_types, gtnet_skt_initial_values,
                 gtnet_skt_protocol, struct_format_string, pmu_info, bgvars,
                 gtnet_skt_state, current_values, lock, wvars, netvars, ghostvars,
                 sequence, ppc, pframe, ppending, frames, measured,
                 retry_count, source_up, source_outages, started, pcaller, soft_run,
                 frame_sequence>>

\* The handler of __init__: sleep(self.retry_delay); polling_active is still
\* False, so the while loop enters the for statement again, over the same
\* iterator
init_pmu_sleep ==
  /\ ipc = "sleep"
  /\ ipc' = "next"
  /\ UNCHANGED <<gtnet_skt_tag_names, gtnet_skt_tag_types, gtnet_skt_initial_values,
                 gtnet_skt_protocol, struct_format_string, pmu_info, pmus, bgvars,
                 gtnet_skt_state, current_values, lock, wvars, netvars, ghostvars, pvars>>

(***************************************************************************)
(* RTDS._start_poll_pmus(): the thread __init__ starts after construction  *)
(***************************************************************************)
\* Whether a PMU is in self.pmus, and where
InPmus(p) == \E i \in 1..Len(pmus) : pmus[i] = p
Position(p) == CHOOSE i \in 1..Len(pmus) : pmus[i] = p

\* "for pmu in self.pmus: pmu.sequence = 0; pmu.start()".  The start command is
\* sent on the PMU's socket; an exception of start() is caught nowhere and ends
\* the thread.
start_poll_pmus_start(p) ==
  /\ spc = "start"
  /\ InPmus(p)
  /\ ~started[p]
  /\ \A j \in 1..Len(pmus) : j < Position(p) => started[pmus[j]]
  /\ IF pmu_socket[p] = "open"
     THEN /\ sequence' = [sequence EXCEPT ![p] = 0]
          /\ started' = [started EXCEPT ![p] = TRUE]
          /\ spc' = IF Position(p) = Len(pmus) THEN "threads" ELSE "start"
     ELSE /\ sequence' = [sequence EXCEPT ![p] = 0]
          /\ spc' = "dead"
          /\ UNCHANGED started
  /\ UNCHANGED <<cfgvars, pubvars, gtnet_skt_state, current_values, lock, wvars, netvars,
                 ghostvars, channel_names, ppc, pframe, ppending, frames, measured,
                 retry_count, pmu_socket, source_up, source_outages, pcaller, soft_run,
                 frame_sequence, pmu_header, config_fresh>>

\* "for pmu in self.pmus: threading.Thread(target=self._poll_pmu, args=(pmu,)).start()"
start_poll_pmus_thread(p) ==
  /\ spc = "threads"
  /\ InPmus(p)
  /\ ppc[p] = "unstarted"
  /\ \A j \in 1..Len(pmus) : j < Position(p) => ppc[pmus[j]] # "unstarted"
  /\ ppc' = [ppc EXCEPT ![p] = "poll"]
  /\ retry_count' = [retry_count EXCEPT ![p] = 0]
  /\ spc' = IF Position(p) = Len(pmus) THEN "done" ELSE "threads"
  /\ UNCHANGED <<cfgvars, pubvars, gtnet_skt_state, current_values, lock, wvars, netvars,
                 ghostvars, channel_names, sequence, pframe, ppending, frames, measured,
                 pmu_socket, source_up, source_outages, started, pcaller, soft_run,
                 frame_sequence, pmu_header, config_fresh>>

(***************************************************************************)
(* RTDS.periodic_publish(): one thread                                     *)
(***************************************************************************)
\* f"{tag}:{self._serialize_value(tag, value)}"
TagEntry(item) == <<item.key, ":">> \o serialize_value(item.key, item.value)

\* ",".join(tags)
RECURSIVE JoinEntries(_)
JoinEntries(entries) ==
  IF entries = <<>> THEN <<>>
  ELSE IF Len(entries) = 1 THEN entries[1]
  ELSE entries[1] \o <<",">> \o JoinEntries(Tail(entries))

\* Mutant: the list of the tags is made without the lock
periodic_publish_snapshot_unlocked ==
  /\ pubpc = "snapshot"
  /\ ptags' = [i \in 1..Len(current_values) |-> TagEntry(current_values[i])]
  /\ pubpc' = "release"
  /\ UNCHANGED <<cfgvars, spc, publish_rate, published, gtnet_skt_state, current_values, lock,
                 wvars, netvars, ghostvars, pvars>>

\* "with self.__lock:" and the list of the tags
periodic_publish_snapshot ==
  /\ pubpc = "snapshot"
  /\ lock = "free"
  /\ lock' = "publisher"
  /\ ptags' = [i \in 1..Len(current_values) |-> TagEntry(current_values[i])]
  /\ pubpc' = "release"
  /\ UNCHANGED <<cfgvars, spc, publish_rate, published, gtnet_skt_state, current_values,
                 wvars, netvars, ghostvars, pvars>>

\* The end of the "with" block
periodic_publish_release ==
  /\ pubpc = "release"
  /\ lock' = IF lock = "publisher" THEN "free" ELSE lock
  /\ pubpc' = "publish"
  /\ UNCHANGED <<cfgvars, spc, publish_rate, ptags, published, gtnet_skt_state, current_values,
                 wvars, netvars, ghostvars, pvars>>

\* Mutant: the thread sleeps after every message
periodic_publish_publish_sleeps ==
  /\ pubpc = "publish"
  /\ published' = <<"Write={">> \o JoinEntries(ptags) \o <<"}">>
  /\ pubpc' = "sleep"
  /\ UNCHANGED <<cfgvars, spc, publish_rate, ptags, gtnet_skt_state, current_values, lock,
                 wvars, netvars, ghostvars, pvars>>

\* msg = "Write={" + ",".join(tags) + "}"; self.publish(msg); "if self.publish_rate:"
periodic_publish_publish ==
  /\ pubpc = "publish"
  /\ published' = <<"Write={">> \o JoinEntries(ptags) \o <<"}">>
  /\ pubpc' = IF publish_rate # 0 THEN "sleep" ELSE "snapshot"
  /\ UNCHANGED <<cfgvars, spc, publish_rate, ptags, gtnet_skt_state, current_values, lock,
                 wvars, netvars, ghostvars, pvars>>

\* sleep(self.publish_rate)
periodic_publish_sleep ==
  /\ pubpc = "sleep"
  /\ pubpc' = "snapshot"
  /\ UNCHANGED <<cfgvars, spc, publish_rate, ptags, published, gtnet_skt_state, current_values,
                 lock, wvars, netvars, ghostvars, pvars>>

PublishStep ==
  \/ periodic_publish_snapshot
  \/ periodic_publish_release
  \/ periodic_publish_publish
  \/ periodic_publish_sleep

\* A PMU thread whose PMU answers every poll with one measurement of one phasor
PollStep(p) ==
  \/ \E data_frame \in StoreFrames : poll_pmu_frame(p, data_frame)
  \/ poll_pmu_lock(p)
  \/ poll_pmu_assign(p)
  \/ poll_pmu_unlock(p)

\* The steps of a write() call after its entry
WriteBody(w) ==
  \/ write_validate(w)
  \/ write_merge(w)
  \/ write_encode(w)
  \/ reset_gtnet_socket(w)
  \/ init_gtnet_socket_create(w)
  \/ init_gtnet_socket_connect(w)
  \/ init_gtnet_socket_sleep(w)
  \/ write_send(w)
  \/ write_update(w)

WriteStep(w) ==
  \/ \E tags \in Requests : write_call(w, tags)
  \/ WriteBody(w)

\* The provider's request loop handles one request at a time
Handler == "w1"

Next ==
  \/ WriteStep(Handler)
  \/ CardDown
  \/ CardUp

Spec == Init /\ [][Next]_vars

\* write() called from several threads at once
NextOverlap ==
  \/ \E w \in Writers : \E tags \in OverlapRequests : write_call(w, tags)
  \/ \E w \in Writers : WriteBody(w)
  \/ CardDown
  \/ CardUp

SpecOverlap == Init /\ [][NextOverlap]_vars

\* The tag store: the PMU threads, the request handlers and write()
NextStore ==
  \/ \E p \in PMUs : PollStep(p)
  \/ \E tags \in OverlapRequests : calls < MaxStoreWrites /\ write_call(Handler, tags)
  \/ write_validate(Handler)
  \/ write_merge(Handler)
  \/ write_encode(Handler)
  \/ reset_gtnet_socket(Handler)
  \/ init_gtnet_socket_create(Handler)
  \/ init_gtnet_socket_connect(Handler)
  \/ write_send(Handler)
  \/ write_update(Handler)

SpecStore == Init /\ [][NextStore]_vars

\* All the steps of the thread that polls PMU p
SessionStep(p) ==
  \/ PollStep(p)
  \/ poll_pmu_none(p)
  \/ poll_pmu_sleep(p)
  \/ poll_pmu_exception(p)
  \/ rebuild_quit(p)
  \/ rebuild_connect(p)
  \/ run_header(p)
  \/ \E frame \in ConfigFrames : run_config(p, frame)
  \/ rebuild_sleep(p)

\* One PMU thread and its PMU, the thread scheduled again and again
Session == 1

NextSession ==
  \/ SessionStep(Session)
  \/ SourceDown(Session)
  \/ SourceUp(Session)

\* The PMU threads use nothing of the GTNET-SKT configuration but the tag
\* store it seeds: one configuration with points stands for all
InitSession ==
  /\ Constructed({c \in Configs : c.protocol = "tcp" /\ c.names # <<>>})
  /\ spc = "done"
  /\ started = [p \in PMUs |-> TRUE]
  /\ ppc = [p \in PMUs |-> "poll"]
  /\ publish_rate = 1

SpecSession == InitSession /\ [][NextSession]_vars /\ WF_vars(SessionStep(Session))

\* One PMU thread whose PMU answers with frames of any content, or with none
NextFrames ==
  \/ \E data_frame \in DataFrames : poll_pmu_frame(Session, data_frame)
  \/ poll_pmu_lock(Session)
  \/ poll_pmu_assign(Session)
  \/ poll_pmu_raise(Session)
  \/ poll_pmu_unlock(Session)
  \/ poll_pmu_none(Session)
  \/ poll_pmu_sleep(Session)

SpecFrames == Init /\ [][NextFrames]_vars

\* The request loop with a scheduler that keeps running the handler
SpecLive == Init /\ [][Next]_vars /\ WF_vars(WriteStep(Handler))

\* The provider with its publisher: publish-rate is zero or a second
PublishRates == {0, 1}
\* The requests of the write() calls made while the publisher is watched
PublishRequests ==
  { <<Item("A", Chars(<<"7">>))>>,
    <<Item("B", PyFloat(2)), Item("A", PyBool(TRUE))>> }
InitPublish ==
  /\ Constructed({c \in Configs : c.protocol = "tcp"})
  /\ spc = "done"
  /\ started = [p \in PMUs |-> TRUE]
  /\ ppc = [p \in PMUs |-> "poll"]
  /\ publish_rate \in PublishRates

\* The publisher beside one PMU thread and the request handler
NextPublish ==
  \/ PublishStep
  \/ PollStep(Session)
  \/ \E tags \in PublishRequests : calls < MaxStoreWrites /\ write_call(Handler, tags)
  \/ write_validate(Handler)
  \/ write_merge(Handler)
  \/ write_encode(Handler)
  \/ reset_gtnet_socket(Handler)
  \/ init_gtnet_socket_create(Handler)
  \/ init_gtnet_socket_connect(Handler)
  \/ write_send(Handler)
  \/ write_update(Handler)

SpecPublish == InitPublish /\ [][NextPublish]_vars

\* The publisher and one PMU thread, both scheduled again and again
NextPublisher ==
  \/ PublishStep
  \/ PollStep(Session)

SpecPublisher ==
  /\ InitPublish
  /\ [][NextPublisher]_vars
  /\ WF_vars(PublishStep)
  /\ WF_vars(PollStep(Session))

\* The provider from the end of __init__: the PMUs are connected and
\* configured, _start_poll_pmus has not yet sent a start command
InitStartup ==
  /\ Constructed(Configs)
  /\ spc = "start"
  /\ started = [p \in PMUs |-> FALSE]
  /\ ppc = [p \in PMUs |-> "unstarted"]
  /\ publish_rate = 1

NextStartup ==
  \/ \E p \in PMUs : start_poll_pmus_start(p)
  \/ \E p \in PMUs : start_poll_pmus_thread(p)
  \/ \E p \in PMUs : PollStep(p)
  \/ \E p \in PMUs : SourceDown(p)
  \/ \E p \in PMUs : SourceUp(p)

SpecStartup == InitStartup /\ [][NextStartup]_vars

\* __init__ at its loop over the configured PMUs, each of them answering or not;
\* then the thread of _start_poll_pmus and the threads it starts
InitConstruct ==
  /\ Configured({c \in Configs : c.protocol = "tcp" /\ c.names # <<>>})
  /\ channel_names = [p \in PMUs |-> <<>>]
  /\ pmu_socket = [p \in PMUs |-> "None"]
  /\ source_up \in [PMUs -> BOOLEAN]
  /\ pmu_header = [p \in PMUs |-> "None"]
  /\ config_fresh = [p \in PMUs |-> FALSE]
  /\ ipc = "next"
  /\ pmu_info = 1
  /\ pmus = <<>>
  /\ spc = "unstarted"
  /\ started = [p \in PMUs |-> FALSE]
  /\ ppc = [p \in PMUs |-> "unstarted"]
  /\ publish_rate = 1

NextConstruct ==
  \/ init_pmu_next
  \/ init_pmu_connect
  \/ \E frame \in ConfigFrames : init_pmu_config(frame)
  \/ init_pmu_sleep
  \/ \E p \in PMUs : SourceDown(p)
  \/ \E p \in PMUs : SourceUp(p)
  \/ \E p \in PMUs : start_poll_pmus_start(p)
  \/ \E p \in PMUs : start_poll_pmus_thread(p)
  \/ \E p \in PMUs : PollStep(p)

SpecConstruct == InitConstruct /\ [][NextConstruct]_vars

(***************************************************************************)
(* Properties                                                              *)
(***************************************************************************)
\* The i-th four-byte field of a packet
Field(bytes, i) == SubSeq(bytes, 4 * i - 3, 4 * i)
\* What the receiver decodes the i-th field of a packet to, by the declared type
Decoded(bytes, i) ==
  UnpackField(IF gtnet_skt_tag_types[i] = "int" THEN "i" ELSE "f", Field(bytes, i))
Points == 1..Len(gtnet_skt_tag_names)

\* C1: every payload that a write() with a non-empty request of declared tags
\* builds and hands to the socket is exactly 4 x N bytes long, N being the
\* number of declared control points, however many tags the request names.
C1_PayloadLength ==
  \A w \in Writers :
    /\ wpc[w] \in {"reset", "create", "connect", "retry_sleep", "send", "update"}
         => Len(wpayload[w]) = 4 * Len(gtnet_skt_tag_names)
    /\ wire[w].handed # "nothing" => Len(wire[w].bytes) = 4 * Len(gtnet_skt_tag_names)

\* A request naming one of two declared points was sent as an eight-byte packet
C1_Witness ==
  /\ wire[Handler].handed = "sent"
  /\ Len(wtags[Handler]) = 1
  /\ Len(gtnet_skt_tag_names) = 2
  /\ Len(wire[Handler].bytes) = 8

\* C2: every field of every packet handed to the socket decodes to the coerced
\* value most recently written to that point, or to the point's configured
\* initial value when no write has stored it; writing one tag resets no other.
C2_FieldsKeepLastWritten ==
  \A w \in Writers :
    wire[w].handed # "nothing" =>
      \A i \in Points :
        Decoded(wire[w].bytes, i) =
          IF last_raw[i].set
          THEN Coerce(gtnet_skt_tag_types[i], last_raw[i].v)
          ELSE Coerce(gtnet_skt_tag_types[i], Chars(gtnet_skt_initial_values[i]))

\* The packet of write({"B": "2.75"}) after "7" was written to A: A=7, B=2.75
C2_Witness ==
  /\ wire[Handler].handed = "sent"
  /\ wtags[Handler] = <<Item("B", Chars(<<"2", ".", "7", "5">>))>>
  /\ last_raw[1] = [set |-> TRUE, v |-> Chars(<<"7">>)]
  /\ Decoded(wire[Handler].bytes, 1) = PyInt(7)
  /\ Decoded(wire[Handler].bytes, 2) = PyFloat(11)

\* C3: the state tracker always holds exactly the declared names in the
\* declared order, the format string declares one field per point in that
\* order, and the i-th field of every packet handed to the socket is the value
\* of the i-th declared point, whatever the order of the keys of the request.
C3_DeclaredOrder ==
  /\ DictKeys(gtnet_skt_state) = gtnet_skt_tag_names
  /\ struct_format_string = FormatString(gtnet_skt_tag_types)
  /\ \A w \in Writers :
       wire[w].handed # "nothing" =>
         \A i \in Points :
           Decoded(wire[w].bytes, i) = DictGet(gtnet_skt_state, gtnet_skt_tag_names[i])

\* A request with the keys B, A was sent as the packet A=1, B=0.5
C3_Witness ==
  /\ wire[Handler].handed = "sent"
  /\ DictKeys(wtags[Handler]) = <<"B", "A">>
  /\ gtnet_skt_tag_names = <<"A", "B">>
  /\ Decoded(wire[Handler].bytes, 1) = PyInt(1)
  /\ Decoded(wire[Handler].bytes, 2) = PyFloat(2)

\* C4: a write() whose request holds an undeclared tag returns an ERR= message
\* in the step that validates it, has handed nothing to the socket, and leaves
\* the state tracker and the tag store as they were, so that read() of every
\* tag answers after the request what it answered before.
C4_UndeclaredTagRejected ==
  [][\A w \in Writers :
       (/\ wpc[w] = "validate"
        /\ \E i \in 1..Len(wtags[w]) : ~TagDeclared(wtags[w][i].key)
        /\ wpc'[w] # "validate")
       => /\ wpc'[w] = "idle"
          /\ wret'.st = "ERR="
          /\ wire[w] = NoWire /\ wire'[w] = NoWire
          /\ gtnet_skt_state' = gtnet_skt_state
          /\ current_values' = current_values
          /\ gtnet_socket' = gtnet_socket /\ conn' = conn
          /\ \A tag \in ReadTags : read(tag)' = read(tag)]_vars

\* write({"A": "3", "Z": "1"}) was rejected after 7 had been written to A
C4_Witness ==
  /\ wpc[Handler] = "idle"
  /\ wret = Err(<<"Invalid tag name '", "Z", "' for write to RTDS">>)
  /\ calls >= 2
  /\ gtnet_skt_tag_names = <<"A", "B">>
  /\ DictGet(gtnet_skt_state, "A") = PyInt(7)
  /\ read("A") = Ack(<<"t", "r", "u", "e">>)

\* A call between the start of its merge and the end of its send
InWrite(w) == wpc[w] \in {"merge", "encode", "reset", "create", "connect", "retry_sleep", "send"}

\* C5: two write() calls are never both between the start of their merge and
\* the end of their send.
C5_WritesDoNotInterleave ==
  \A w1 \in Writers : \A w2 \in Writers : w1 # w2 => ~(InWrite(w1) /\ InWrite(w2))

\* C6: over TCP, if the card eventually stays reachable, every write() whose
\* request passed validation eventually returns ACK.
C6_AcceptedWriteAcked ==
  <>[]reachable =>
    [](gtnet_skt_protocol = "tcp" /\ wpc[Handler] = "merge"
         => <>(wpc[Handler] = "idle" /\ wret.st = "ACK="))

\* C7: from a failed send until the packet has been sent, the state tracker
\* does not change and the call keeps the same full-length payload, so the
\* packet handed to the socket after the reconnect is the one whose send failed.
C7_ReconnectKeepsVector ==
  [][\A w \in Writers :
       wire[w].handed = "failed"
       => /\ gtnet_skt_state' = gtnet_skt_state
          /\ wpayload'[w] = wpayload[w]
          /\ wire'[w].bytes = wire[w].bytes
          /\ Len(wire'[w].bytes) = 4 * Len(gtnet_skt_tag_names)
          /\ wire'[w].bytes = pack(struct_format_string, DictValues(gtnet_skt_state')).bytes]_vars

\* The packet A=7, B=1.5 is sent again over the connection made after its send failed
C7_Witness ==
  /\ wpc[Handler] = "send"
  /\ wire[Handler].handed = "failed"
  /\ conn = "established"
  /\ wpayload[Handler] = wire[Handler].bytes
  /\ Decoded(wpayload[Handler], 1) = PyInt(7)
  /\ Len(wpayload[Handler]) = 8

\* C8: while a PMU thread is assigning the tags of one measurement, read()
\* finds either all of the tags of that measurement or none of them.
C8_ReadersSeeWholeUpdates ==
  \A p \in PMUs :
    ppc[p] = "apply" =>
      LET update == Assignments(p, Head(pframe[p]))
      IN \/ \A i \in 1..Len(update) : read(update[i].key).st = "ACK="
         \/ \A i \in 1..Len(update) : read(update[i].key).st = "ERR="

\* The two error answers of read()
NotInitialized == Err(<<"Data points have not been initialized yet from the RTDS">>)
TagNotFound == Err(<<"Tag not found in current values from RTDS">>)

\* C9 as stated: before any measurement has been assigned to the tag store,
\* read() answers "not initialized" for every tag.
C9_NotInitializedBeforeMeasurement ==
  measured = 0 => \A tag \in ReadTags : read(tag) = NotInitialized

\* C9 amended: before any measurement has been assigned to the tag store,
\* read() answers "not initialized" for every tag when no GTNET-SKT point is
\* declared; when points are declared it answers ACK= for each of them and
\* "tag not found" for every other tag.  The two errors are different messages.
C9_NotInitializedOnlyWhenEmpty ==
  /\ NotInitialized # TagNotFound
  /\ measured = 0 =>
       \A tag \in ReadTags :
         IF gtnet_skt_tag_names = <<>> THEN read(tag) = NotInitialized
         ELSE IF TagDeclared(tag) THEN read(tag).st = "ACK="
         ELSE read(tag) = TagNotFound

\* No point is declared, a write() was rejected, and read("A") is "not initialized"
C9_Witness ==
  /\ measured = 0
  /\ gtnet_skt_tag_names = <<>>
  /\ calls > 0 /\ wpc[Handler] = "idle"
  /\ read("A") = NotInitialized
  /\ read("BUS1_VA.real") = NotInitialized

\* C10: once a measurement has been assigned to the tag store, read() answers
\* "tag not found" for every tag that is not a key of the store, and ACK= with
\* the rendered current value for every tag that is one.
C10_ReadAfterMeasurement ==
  measured >= 1 =>
    \A tag \in ReadTags :
      IF \E i \in 1..Len(current_values) : current_values[i].key = tag
      THEN read(tag) = Ack(serialize_value(tag, DictGet(current_values, tag)))
      ELSE read(tag) = TagNotFound

\* After a whole measurement: Z is not found, BUS1_VA.real reads 1.0
C10_Witness ==
  /\ measured = 2
  /\ read("Z") = TagNotFound
  /\ read("BUS1_VA.real") = Ack(<<"1", ".", "0">>)
  /\ read("BUS1_VA.angle").st = "ACK="

\* The tag names an ACK= answer of query() lists, split at the commas
Listed(text) == [i \in 1..((Len(text) + 1) \div 2) |-> text[2 * i - 1]]

\* C11: query() answers the "no data yet" error exactly when the tag store
\* holds no tag, and otherwise ACK= with exactly the names in the store,
\* measurement tags and GTNET-SKT points alike.
C11_QueryListsStore ==
  /\ query.st = "ERR=" <=> Len(current_values) = 0
  /\ query.st = "ERR=" => query.text = <<"No data points have been read yet from the RTDS">>
  /\ query.st # "ERR=" =>
       /\ query.st = "ACK="
       /\ Listed(query.text) = [i \in 1..Len(current_values) |-> current_values[i].key]
       /\ \A i \in 1..Len(query.text) : i % 2 = 0 => query.text[i] = ","

\* query() lists the two points and the two tags of a measurement
C11_Witness ==
  /\ measured = 2
  /\ query = Ack(<<"A", ",", "B", ",", "BUS1_VA.real", ",", "BUS1_VA.angle">>)

\* C12: write() with an empty request returns an ERR= message, hands nothing
\* to the socket and changes no state; a write() that reaches its end returns
\* ACK= with the number of tags of the request.
C12_EmptyAndCount ==
  [][\A w \in Writers :
       /\ (wpc[w] = "validate" /\ wtags[w] = <<>> /\ wpc'[w] # "validate")
          => /\ wpc'[w] = "idle"
             /\ wret' = Err(<<"No tags provided for write to RTDS">>)
             /\ wire[w] = NoWire /\ wire'[w] = NoWire
             /\ UNCHANGED <<gtnet_skt_state, current_values, gtnet_socket, conn, last_raw>>
       /\ (wpc[w] = "update" /\ wpc'[w] = "idle")
          => /\ wret'.st = "ACK="
             /\ wret'.text = <<"Wrote ", Digits[Len(wtags[w]) + 1], " tags to RTDS via GTNET-SKT">>]_vars

\* A request of one tag, with two points declared, was acknowledged as one tag
C12_Witness ==
  /\ wpc[Handler] = "idle"
  /\ Len(gtnet_skt_tag_names) = 2
  /\ wret = Ack(<<"Wrote ", "1", " tags to RTDS via GTNET-SKT">>)

\* C13: every call to write() ends with a message that begins with ACK= or
\* ERR=, and read() and query() answer such a message in every state.
C13_AlwaysAckOrErr ==
  /\ wret.st \in {"none", "ACK=", "ERR="}
  /\ query.st \in {"ACK=", "ERR="}
  /\ \A tag \in ReadTags : read(tag).st \in {"ACK=", "ERR="}

\* The text "false" or "true" in any letter case
AnyCase(chars, lower, upper) ==
  /\ Len(chars) = Len(lower)
  /\ \A i \in 1..Len(lower) : chars[i] \in {lower[i], upper[i]}
MeansFalse(val) ==
  \/ val.k = "bool" /\ val.n = 0
  \/ val.k = "str" /\ AnyCase(val.s, <<"f", "a", "l", "s", "e">>, <<"F", "A", "L", "S", "E">>)
MeansTrue(val) ==
  \/ val.k = "bool" /\ val.n = 1
  \/ val.k = "str" /\ AnyCase(val.s, <<"t", "r", "u", "e">>, <<"T", "R", "U", "E">>)
\* A step of the merge loop of w: it stores a value or ends the call
MergeStep(w) == wpc[w] = "merge" /\ (wi'[w] # wi[w] \/ wpc'[w] # "merge")
MergedTag(w) == wtags[w][wi[w]].key
MergedValue(w) == wtags[w][wi[w]].value

\* C18: each step of the merge loop stores 0 for boolean false or the text
\* "false" in any letter case, 1 for boolean true or the text "true", and
\* otherwise, unless the cast raises, the value cast to the declared type of
\* the point; what it stores in an int point is an int, in a float point a float.
C18_CoercionRule ==
  [][\A w \in Writers :
       MergeStep(w) =>
         LET typ == TagType(MergedTag(w))
             stored == DictGet(gtnet_skt_state', MergedTag(w))
         IN IF MeansFalse(MergedValue(w))
            THEN wret'.st # "raise" /\ stored = [k |-> typ, n |-> 0, s |-> <<>>]
            ELSE IF MeansTrue(MergedValue(w))
            THEN /\ wret'.st # "raise"
                 /\ stored = [k |-> typ, n |-> IF typ = "int" THEN 1 ELSE 4, s |-> <<>>]
            ELSE wret'.st # "raise" =>
                   /\ stored = IF typ = "int" THEN int(MergedValue(w)) ELSE float(MergedValue(w))
                   /\ stored.k = typ]_vars

\* write({"A": "-1", "B": "TRUE"}) has stored the int -1 in A and the float 1.0 in B
C18_Witness ==
  /\ wpc[Handler] = "encode"
  /\ wtags[Handler] = <<Item("A", Chars(<<"-", "1">>)), Item("B", Chars(<<"T", "R", "U", "E">>))>>
  /\ DictGet(gtnet_skt_state, "A") = PyInt(-1)
  /\ DictGet(gtnet_skt_state, "B") = PyFloat(4)

\* A boolean, an integer, a float or text that float() accepts
Numeric(val) == val.k \in {"bool", "int", "float"} \/ (val.k = "str" /\ ~IsRaise(ParseFloat(val.s)))

\* C19: a step of the merge loop whose value is a boolean, an integer, a
\* float or numeric text never ends the call with an exception, whatever the
\* declared type of the point.
C19_MismatchTolerated ==
  [][\A w \in Writers :
       MergeStep(w) /\ Numeric(MergedValue(w)) => wret'.st # "raise"]_vars

\* C20: every value in the tag store that is a boolean, or that belongs to a
\* point declared int, is rendered "true" when it is not zero, negative values
\* included, and "false" when it is zero; every other value is rendered as its
\* natural text.
C20_RenderedByTruth ==
  \A i \in 1..Len(current_values) :
    LET tag == current_values[i].key
        value == current_values[i].value
    IN serialize_value(tag, value) =
         IF value.k = "bool" \/ (TagDeclared(tag) /\ TagType(tag) = "int")
         THEN IF value.n # 0 THEN <<"t", "r", "u", "e">> ELSE <<"f", "a", "l", "s", "e">>
         ELSE str(value)

\* C14: a PMU thread rebuilds its connection because a poll gave no data only
\* when the three polls before it gave no data either, with no frame in between.
C14_ThreeSoftFailuresInARow ==
  [][\A p \in PMUs :
       (ppc[p] = "poll" /\ ppc'[p] = "rebuild" /\ pcaller'[p] = "soft") => soft_run[p] >= 3]_vars

\* Where a thread stands inside _rebuild_pmu_connection
Rebuilding(p) == ppc[p] \in {"rebuild", "connect", "header", "config", "rebuild_sleep"}

\* C15: _rebuild_pmu_connection is left only by an attempt that connected and
\* got the configuration; an attempt that fails is followed by the sleep and
\* the sleep by another attempt; and if the PMU stays reachable from some
\* time on, the thread polls again.
C15_ReconnectNeverGivesUp ==
  /\ [][\A p \in PMUs :
          /\ (Rebuilding(p) /\ ~Rebuilding(p)')
             => ppc[p] = "config" /\ ppc'[p] = "poll" /\ pmu_socket'[p] = "open"
          /\ (ppc[p] = "connect" /\ ppc'[p] # "connect" /\ ~source_up[p])
             => ppc'[p] = "rebuild_sleep"
          /\ (ppc[p] = "config" /\ ppc'[p] \notin {"config", "poll"})
             => ppc'[p] = "rebuild_sleep"
          /\ (ppc[p] = "rebuild_sleep" /\ ppc'[p] # "rebuild_sleep")
             => ppc'[p] = "connect"]_vars
  /\ (<>[]source_up[Session] => [](Rebuilding(Session) => <>(ppc[Session] = "poll")))

\* An attempt has failed and the thread sleeps, while the PMU is reachable again
C15_Witness ==
  /\ ppc[Session] = "rebuild_sleep"
  /\ pmu_socket[Session] = "None"
  /\ source_up[Session]
  /\ source_outages = 1

\* C16: whenever a PMU thread polls, the start command has been sent on the
\* connection it polls.
C16_StartedBeforePolling ==
  \A p \in PMUs :
    ppc[p] \in {"poll", "retry_sleep", "measurement", "apply"} => started[p]

\* C17: the step that ends a reconnection leaves the sequence number at zero
\* and the channel names as the processed names of the configuration frame of
\* the new connection, one per channel, without the names held before.
C17_ReconnectResetsSession ==
  [][\A p \in PMUs :
       (ppc[p] = "config" /\ ppc'[p] = "poll")
       => /\ sequence'[p] = 0
          /\ channel_names'[p] \in {<<"VA">>, <<"phasor ch 1:VB">>}]_vars

\* A thread that had processed a measurement polls again after a reconnection
C17_Witness ==
  /\ ppc[Session] = "poll"
  /\ measured = 2
  /\ source_outages = 1
  /\ pmu_socket[Session] = "open"
  /\ sequence[Session] = 0
  /\ channel_names[Session] = <<"phasor ch 1:VB">>

\* C27: while a thread works on the measurements of one frame, the sequence
\* number it stamps them with is the one the session had when the frame was
\* obtained: one frame, one sequence number.
C27_OneSequencePerFrame ==
  \A p \in PMUs :
    (ppc[p] \in {"measurement", "apply"} /\ pframe[p] # <<>>)
    => sequence[p] = frame_sequence[p]

\* The keys under which session p may store a value if every key it writes
\* begins with its label
LabelKeys(p) ==
  { pmu_label(p) \o "_" \o n \o t :
      n \in {"VA", "VB", "phasor ch 1:VB", "ANALOG_1", "ANALOG_2"},
      t \in {".real", ".angle"} }

\* C28: every key a session is about to assign in the tag store, for a phasor
\* or for an analog value, begins with the label of that session.
C28_KeysPrefixedByLabel ==
  \A p \in PMUs :
    \A i \in 1..Len(ppending[p]) :
      ~IsRaise(ppending[p][i].value) => ppending[p][i].key \in LabelKeys(p)

\* C30: the thread that polls a PMU never ends, whatever the frames hold.
C30_PollingNeverStops ==
  \A p \in PMUs : ppc[p] # "dead"

\* Where a thread polls or works on a frame
Polling(p) == ppc[p] \in {"poll", "retry_sleep", "measurement", "apply"}

C26_ExceptionReconnectsAtOnce ==
  /\ [][\A p \in PMUs :
          /\ (pcaller[p] # "exception" /\ pcaller'[p] = "exception")
             => /\ ppc[p] = "poll"
                /\ ppc'[p] = "rebuild"
                /\ retry_count'[p] = retry_count[p]
          /\ (ppc[p] = "rebuild" /\ ppc'[p] # "rebuild")
             => ppc'[p] = "connect" /\ pmu_socket'[p] = "None"]_vars
  /\ [](\A p \in PMUs :
          /\ pcaller[p] = "exception" => Rebuilding(p)
          /\ ppc[p] \in {"connect", "rebuild_sleep"} => pmu_socket[p] = "None")

\* A poll has raised after two polls without data: the thread reconnects
C26_Witness ==
  /\ ppc[Session] = "rebuild"
  /\ pcaller[Session] = "exception"
  /\ retry_count[Session] = 2
  /\ pmu_socket[Session] = "broken"

\* C23: every declared GTNET-SKT point is a key of the tag store, and until a
\* write() that names the point has returned its ACK the store holds the
\* point's initial value of the configuration.
C23_InitialValueUntilWritten ==
  \A i \in 1..Len(gtnet_skt_tag_names) :
    /\ DictHas(current_values, gtnet_skt_tag_names[i])
    /\ gtnet_skt_tag_names[i] \notin acked
       => DictGet(current_values, gtnet_skt_tag_names[i])
          = DictGet(InitialState(gtnet_skt_tag_names, gtnet_skt_tag_types,
                                 gtnet_skt_initial_values), gtnet_skt_tag_names[i])

\* C24: the tag store changes only in the step that ends a write() whose
\* payload the socket has taken, so that read() answers with the values from
\* before the call as long as the sending fails and is tried again; and after
\* that step, which returns the ACK, read() of every point of the request
\* answers with the rendering of the value the request gave it.
C24_StoreFollowsTheSend ==
  [][/\ current_values' # current_values
        => /\ wpc[Handler] = "update"
           /\ wire[Handler].handed = "sent"
           /\ wpc'[Handler] = "idle"
     /\ (wpc[Handler] = "update" /\ wpc'[Handler] = "idle")
        => /\ wret'.st = "ACK="
           /\ \A item \in {wtags[Handler][i] : i \in 1..Len(wtags[Handler])} :
                read(item.key)'
                = Ack(serialize_value(item.key, Coerce(TagType(item.key), item.value)))]_vars

\* The payload with A = 7 was refused by the socket and the call is about to
\* reconnect: read() still answers with the initial value of A
C24_Witness ==
  /\ wpc[Handler] = "reset"
  /\ wire[Handler].handed = "failed"
  /\ wtags[Handler] = <<Item("A", Chars(<<"7">>))>>
  /\ DictGet(gtnet_skt_state, "A") = PyInt(7)
  /\ read("A") = Ack(<<"f", "a", "l", "s", "e">>)

\* The last message between its braces: entries with commas between them
MessageText == SubSeq(published, 2, Len(published) - 1)
\* Where the entries of the message begin and end
EntryStarts == {i \in 1..Len(MessageText) : i = 1 \/ MessageText[i - 1] = ","}
EntryEnd(s) ==
  CHOOSE e \in s..Len(MessageText) :
    /\ e = Len(MessageText) \/ MessageText[e + 1] = ","
    /\ \A k \in s..e : MessageText[k] # ","
\* The entries of the last message, and the renderings it gives for a tag
MessageEntries == {SubSeq(MessageText, s, EntryEnd(s)) : s \in EntryStarts}
Renderings(tag) == {SubSeq(e, 3, Len(e)) : e \in {x \in MessageEntries : x[1] = tag}}
\* The (real, angle) pairs the measurements of the PMUs hold
MeasuredPairs == {f[1].phasors[1] : f \in StoreFrames}

\* A message that names no tag twice and gives the real part and the angle of a
\* phasor, and the two tags of an analog value, both or neither, from one and
\* the same measurement
WholeMeasurements ==
  /\ Cardinality({e[1] : e \in MessageEntries}) = Cardinality(EntryStarts)
  /\ \A p \in PMUs :
       /\ \/ /\ Renderings(pmu_label(p) \o "_VA.real") = {}
             /\ Renderings(pmu_label(p) \o "_VA.angle") = {}
          \/ \E m \in MeasuredPairs :
               /\ Renderings(pmu_label(p) \o "_VA.real") = {str(m[1])}
               /\ Renderings(pmu_label(p) \o "_VA.angle") = {str(m[2])}
       /\ Renderings(pmu_name(p) \o "_ANALOG_1.real")
          = Renderings(pmu_name(p) \o "_ANALOG_1.angle")

\* C21: the list behind a message is made in one step, while no thread is
\* inside an update of the tag store, and has one name:value entry for each
\* tag of the store, in the store's order; the message is that list.  So a
\* message names no tag twice, and it gives the two tags of a phasor or of an
\* analog value both or neither, from one and the same measurement.
C21_MessageIsOneSnapshot ==
  [][/\ ptags' # ptags
        => /\ lock = "free"
           /\ ptags' = [i \in 1..Len(current_values) |->
                          <<current_values[i].key, ":">>
                          \o serialize_value(current_values[i].key, current_values[i].value)]
     /\ published' # published
        => /\ published'[1] = "Write={" /\ published'[Len(published')] = "}"
           /\ MessageEntries' = {ptags[i] : i \in 1..Len(ptags)}
           /\ Cardinality(EntryStarts') = Len(ptags)
           /\ WholeMeasurements']_vars

\* The publisher waits for the lock while the PMU thread has stored the real
\* part of a second measurement and not yet its angle; its last message holds
\* the whole first measurement
C21_Witness ==
  /\ pubpc = "snapshot"
  /\ lock = pmu_name(Session)
  /\ Len(ppending[Session]) = 1
  /\ frames = 2
  /\ Renderings("BUS1_VA.real") # {}
  /\ Renderings("BUS1_VA.real") # {str(DictGet(current_values, "BUS1_VA.real"))}

\* C29: the publisher thread is always at one of the steps of its loop and
\* publishes again and again; the step after a message is the sleep when
\* publish_rate is not zero and the next snapshot when it is zero, and the
\* step after the sleep is the next snapshot; the thread holds the lock
\* neither when it publishes nor when it sleeps.
C29_PublisherNeverStops ==
  /\ [](/\ pubpc \in {"snapshot", "release", "publish", "sleep"}
        /\ pubpc \in {"publish", "sleep"} => lock # "publisher"
        /\ pubpc = "sleep" => publish_rate # 0)
  /\ [][/\ (pubpc = "publish" /\ pubpc' # "publish")
           => pubpc' = (IF publish_rate = 0 THEN "snapshot" ELSE "sleep")
        /\ (pubpc = "sleep" /\ pubpc' # "sleep") => pubpc' = "snapshot"]_vars
  /\ []<>(pubpc = "publish")
  /\ []<>(pubpc = "snapshot")

\* With publish-rate zero the thread is back at the snapshot after a message,
\* and a measurement has reached the tag store since
C29_Witness ==
  /\ publish_rate = 0
  /\ pubpc = "snapshot"
  /\ published # <<>>
  /\ measured = 2
  /\ Renderings("BUS1_VA.real") = {}

\* C22: a PMU that is connected and answers is not left without its polling
\* thread because the thread that starts the PMUs has ended.
C22_FailureStaysLocal ==
  \A p \in PMUs :
    (source_up[p] /\ pmu_socket[p] = "open") => ~(spc = "dead" /\ ppc[p] = "unstarted")

\* C32: whenever no write() call is in progress, the state tracker encodes to
\* the last payload the socket has taken, or holds the initial values of the
\* configuration if the socket has taken none: a call that ends without a
\* packet sent has left the tracker as it was.
C32_VectorIsLastPacket ==
  (\A w \in Writers : wpc[w] = "idle")
  => IF last_sent.handed = "sent"
     THEN /\ pack(struct_format_string, DictValues(gtnet_skt_state)).ok
          /\ pack(struct_format_string, DictValues(gtnet_skt_state)).bytes = last_sent.bytes
     ELSE gtnet_skt_state = InitialState(gtnet_skt_tag_names, gtnet_skt_tag_types,
                                         gtnet_skt_initial_values)

\* C34: every value the state tracker holds for a point of type int lies in
\* the signed 32-bit range, so that struct.pack of the tracker cannot fail.
C34_IntSlotsFitTheirField ==
  /\ \A i \in Points :
       gtnet_skt_tag_types[i] = "int"
       => ~IsWide(DictGet(gtnet_skt_state, gtnet_skt_tag_names[i]))
  /\ pack(struct_format_string, DictValues(gtnet_skt_state)).ok

\* C33: a thread that creates the downstream socket (socket.socket(...) bound to
\* self.__gtnet_socket) does so only when no socket object is held, that is, the
\* previous socket has been closed by _reset_gtnet_socket and none was opened
\* since; then at most one downstream socket is open at any time.
C33_OpenedOnlyWhenNoneIsOpen ==
  [][\A w \in Writers :
       (wpc[w] = "create" /\ wpc'[w] \in {"connect", "send"})
       => gtnet_socket = "None"]_vars

\* C31: when __init__ has left its loop over the configured PMUs, self.pmus
\* holds exactly one PMU for each configured source, in configured order, also
\* when connection attempts failed and were retried.
C31_OneSessionPerSource ==
  ipc = "done" => pmus = ConfiguredPMUs

====
